---- MODULE Spec2Model ----
(***************************************************************************)
(* A model of extract-blobs: chroma-key removal (draw_border, flood_fill), *)
(* alpha-plane extraction and replacement, blob separation, bounding-box   *)
(* and deskew geometry, and the per-file pipeline of BlobExtractor.        *)
(*                                                                         *)
(* Colours are RGBA tuples <<r, g, b, a>> of 8-bit channels.  Lab          *)
(* coordinates and colour distances are in hundredths of a Lab unit.       *)
(* Images are functions from coordinates <<x, y>> to pixel values.         *)
(***************************************************************************)
EXTENDS Integers, Sequences, FiniteSets, TLC

VARIABLES
    \* ---- the colour image and one flood_fill call on it
    width, height,      \* image.dimensions()
    image,              \* the RGBA buffer being mutated
    seed,               \* the (x, y) arguments of flood_fill
    target_color, replacement_color, fuzz,
    stack, visited,     \* flood_fill's locals
    pc,                 \* position of the running program
    todo,               \* calls of flood_fill the caller still makes
    original,           \* history: the image when the current call began
    written,            \* history: put_pixel count per coordinate, this call
    tally,              \* history: pushes, and pixels past the visited
                        \* check per coordinate, this call
    results,            \* history: the input image, then the image at the
                        \* end of each call of flood_fill
    \* ---- single-channel buffers and what is computed from them
    mask,               \* a Luma buffer (alpha plane, blob mask)
    gray_image,         \* the result of alpha_channel::extract
    source,             \* the RGBA buffer alpha_channel::extract reads
    source0,            \* history: source as first given
    components,         \* the label map of connected_components
    blobs,              \* the result of extract_blobs
    bounding_box,       \* the outcome of compute_bounding_box
    overflow_checks,    \* the build panics on integer overflow (debug)
    \* ---- BlobExtractor::process; buffers are kept by their size only
    cfg,                \* the fields of BlobExtractor that process reads
    result,             \* what process returned
    trace,              \* history: the fallible operations run, in order
    image_rgba,         \* the full-size colour image
    image_mask,         \* the alpha plane being cleaned
    index,              \* position in the loop over blobs
    blob,               \* the current blob's mask
    blob_rgba,          \* the current blob's colour image
    center,             \* rotation centre of the current blob
    lines,              \* the lines detected for the current blob
    deskew_angle,       \* hundredths of a degree
    mask_rotation,      \* the rotation applied to the mask
    rgba_rotation,      \* the rotation applied to the colour image
    replacements,       \* history: the buffer sizes at each alpha replace
    fs,                 \* the files written, each with who wrote it
    \* ---- run: the loop over the files of the command line
    files,              \* args.files, each with what is at that path
    file,               \* position in the loop over files
    started,            \* history: the files given to BlobExtractor::new
    log,                \* history: what each call of process returned
    run_result,         \* what run returned
    \* ---- pixel density
    metadata,           \* the bytes of the file and its decoded EXIF data
    maybe_dpi,          \* what open_image found in the metadata
    dpi,                \* the density process gives to its colour images
    from_exif,          \* the result of read_dpi_from_exif
    from_jfif,          \* the result of read_dpi_from_jfif
    decoded,            \* the result of dpi::decoder::read_from_bytes
    \* ---- single calls of color_similarity and draw_border
    similarity,         \* two colours and the calls made with them
    border,             \* the arguments of draw_border
    \* ---- single calls of the two deskew strategies
    detected_lines,     \* the lines detect_lines returned
    deskew,             \* what compute_deskew_angle_for_rectangle made of them
    hull,               \* the points convex_hull returned
    skew                \* what compute_skew_angle_and_rotation_center made
                        \* of them

dimVars == <<width, height>>

fillVars == <<image, seed, target_color, replacement_color,
              fuzz, stack, visited, todo, original, written, tally,
              results>>

maskVars == <<mask, gray_image, source, source0, components, blobs,
              bounding_box, overflow_checks>>

procVars == <<cfg, result, trace, image_rgba, image_mask, index, blob,
              blob_rgba, center, lines, deskew_angle, mask_rotation,
              rgba_rotation, replacements, fs>>

runVars == <<files, file, started, log, run_result>>

readerVars == <<from_exif, from_jfif, decoded>>

openedVars == <<maybe_dpi, dpi>>

dpiVars == <<metadata, openedVars, readerVars>>

angleVars == <<detected_lines, deskew, hull, skew>>

callVars == <<similarity, border, angleVars>>

vars ==
    <<dimVars, fillVars, maskVars, procVars, runVars, dpiVars, callVars, pc>>

----------------------------------------------------------------------------
(* Bounds of the model *)

\* flood_fill is explored on every image of at most this many pixels
MaxFillArea == 6
\* the border + flood-fill sequence is explored on every sheet of at most
\* this many pixels
MaxSheetArea == 9
\* alpha planes are moved between every two buffers of at most this many
\* pixels
MaxAlphaArea == 4
\* masks have at most this many pixels
MaxMaskArea == 9
\* flood_fill is called this many times in a row with the same parameters
NumCalls == 2

\* the pipeline: pixels of the sheet, blobs on it, lines detected per blob
MaxPipeArea == 6

MaxBlobs == 2

MaxDetected == 2

\* files on the command line
MaxFiles == 3

----------------------------------------------------------------------------
(* Colours *)

Key == <<113, 170, 93, 255>>          \* default chroma key #71AA5D
NearKey == <<120, 175, 100, 255>>     \* a slightly uneven background
White == <<255, 255, 255, 255>>       \* content
Transparent == <<0, 0, 0, 0>>         \* floodfill_color

Palette == {Key, NearKey, White}

\* fuzz values (hundredths): negative, exact match, the default 17.0
FuzzValues == {-100, 0, 1700}

\* color_ops::image_rgba_to_palette_srgb: keeps r, g, b (over 255), drops alpha
image_rgba_to_palette_srgb(color) == <<color[1], color[2], color[3]>>

\* Lab::from_color on the colours of the model, in hundredths (D65)
Lab(srgb) ==
    CASE srgb = <<113, 170, 93>>  -> [l |-> 6420,  a |-> -3340, b |-> 3382]
      [] srgb = <<120, 175, 100>> -> [l |-> 6619,  a |-> -3232, b |-> 3280]
      [] srgb = <<255, 255, 255>> -> [l |-> 10000, a |-> 0,     b |-> 0]
      [] srgb = <<0, 0, 0>>       -> [l |-> 0,     a |-> 0,     b |-> 0]
      [] srgb = <<0, 0, 1>>       -> [l |-> 2,     a |-> 14,    b |-> -38]
      [] srgb = <<254, 255, 255>> -> [l |-> 9993,  a |-> -33,   b |-> -12]
      [] srgb = <<113, 170, 94>>  -> [l |-> 6422,  a |-> -3326, b |-> 3332]
      [] srgb = <<128, 128, 128>> -> [l |-> 5359,  a |-> 0,     b |-> 0]
      [] srgb = <<255, 0, 0>>     -> [l |-> 5324,  a |-> 8009,  b |-> 6720]

RECURSIVE SqrtSearch(_, _, _)
SqrtSearch(n, lo, hi) ==
    IF lo >= hi THEN lo
    ELSE LET mid == (lo + hi + 1) \div 2
         IN  IF mid * mid <= n THEN SqrtSearch(n, mid, hi)
             ELSE SqrtSearch(n, lo, mid - 1)

\* f32::sqrt, rounded down to the unit
Sqrt(n) == SqrtSearch(n, 0, 20000)

\* the difference in lightness alone
color_similarity_lightness(a, b) == Lab(a).l - Lab(b).l

\* color_ops::color_similarity: Euclidean distance in Lab space
color_similarity(a, b) ==
    LET lab_a == Lab(a)
        lab_b == Lab(b)
        delta_e == (lab_a.l - lab_b.l) * (lab_a.l - lab_b.l)
                 + (lab_a.a - lab_b.a) * (lab_a.a - lab_b.a)
                 + (lab_a.b - lab_b.b) * (lab_a.b - lab_b.b)
    IN  Sqrt(delta_e)

----------------------------------------------------------------------------
(* Image buffers *)

Coords(w, h) == (0 .. w - 1) \X (0 .. h - 1)

InBounds(c, w, h) == c[1] >= 0 /\ c[1] < w /\ c[2] >= 0 /\ c[2] < h

\* two pixels that share an edge (4-connectivity)
Adjacent(c, d) ==
    \/ c[1] = d[1] /\ (c[2] = d[2] + 1 \/ c[2] = d[2] - 1)
    \/ c[2] = d[2] /\ (c[1] = d[1] + 1 \/ c[1] = d[1] - 1)

\* ImageBuffer::enumerate_pixels: the coordinates in row-major order
EnumeratePixels(w, h) ==
    [i \in 1 .. w * h |-> <<(i - 1) % w, (i - 1) \div w>>]

\* a buffer that starts out white
NewLumaWhite(w, h) == [c \in Coords(w, h) |-> 255]

\* ImageBuffer::new for a Luma buffer: every pixel zero
NewLuma(w, h) == [c \in Coords(w, h) |-> 0]

\* put_pixel with the coordinates swapped
PutPixelTransposed(img, c, color) ==
    IF <<c[2], c[1]>> \in DOMAIN img
    THEN [img EXCEPT ![<<c[2], c[1]>>] = color]
    ELSE img

\* ImageBuffer::put_pixel
PutPixel(img, c, color) == [img EXCEPT ![c] = color]

\* the neighbours of an 8-connected fill
DirectionsDiagonal == << <<0, 1>>, <<1, 0>>, <<0, -1>>, <<-1, 0>>,
                         <<1, 1>>, <<1, -1>>, <<-1, 1>>, <<-1, -1>> >>

\* the order in which flood_fill pushes the neighbours of a filled pixel
Directions == << <<0, 1>>, <<1, 0>>, <<0, -1>>, <<-1, 0>> >>

Neighbours(c) == [i \in 1 .. Len(Directions) |->
                    <<c[1] + Directions[i][1], c[2] + Directions[i][2]>>]

\* the value of a buffer or local that does not exist (yet)
None == "none"

\* no single-channel buffer is in use
MaskUnused ==
    /\ mask = None /\ gray_image = None /\ source = None /\ source0 = None
    /\ components = None /\ blobs = None /\ bounding_box = None
    /\ overflow_checks = TRUE

\* run is not running
RunUnused ==
    /\ files = <<>> /\ file = 0 /\ started = <<>> /\ log = <<>>
    /\ run_result = None

\* no single call is being made
AnglesUnused ==
    detected_lines = None /\ deskew = None /\ hull = None /\ skew = None

CallsUnused == similarity = None /\ border = None /\ AnglesUnused

\* no metadata is being read
DpiUnused ==
    /\ metadata = None /\ maybe_dpi = None /\ dpi = None
    /\ from_exif = None /\ from_jfif = None /\ decoded = None

\* process is not running
ProcUnused ==
    /\ cfg = None /\ result = None /\ trace = <<>> /\ image_rgba = None
    /\ image_mask = None /\ index = 0 /\ blob = None /\ blob_rgba = None
    /\ center = None /\ lines = None /\ deskew_angle = None
    /\ mask_rotation = None /\ rgba_rotation = None /\ replacements = <<>>
    /\ fs = {}

\* no colour image or flood fill is in use
FillUnused ==
    /\ image = None /\ seed = None /\ target_color = None
    /\ replacement_color = None /\ fuzz = None /\ stack = <<>>
    /\ visited = {} /\ todo = 0 /\ original = None /\ written = None
    /\ tally = None /\ results = <<>>

----------------------------------------------------------------------------
(* drawing::flood_fill, one loop iteration per step *)

\* a set that forgets what is put into it
insert_nothing(set, c) == set

\* visisted.insert((cx, cy))
insert(set, c) == set \cup {c}

\* nothing pushed, no pixel past the visited check
no_tally(w, h) == [pushed |-> 0, admitted |-> [c \in Coords(w, h) |-> 0]]

\* entry: let mut stack = vec![(x, y)]; let mut visisted = HashSet::new();
FloodFillEnter ==
    /\ pc = "call"
    /\ stack' = <<seed>>
    /\ visited' = {}
    /\ original' = image
    /\ written' = [c \in Coords(width, height) |-> 0]
    /\ tally' = [no_tally(width, height) EXCEPT !.pushed = 1]
    /\ pc' = "loop"
    /\ UNCHANGED <<dimVars, image, seed, target_color,
                   replacement_color, fuzz, todo, results, maskVars>>
    /\ UNCHANGED <<procVars, runVars, dpiVars, callVars>>

\* one iteration of: while let Some((cx, cy)) = stack.pop()
FloodFillStep ==
    /\ pc = "loop"
    /\ stack # <<>>
    /\ LET c == stack[Len(stack)]
           rest == SubSeq(stack, 1, Len(stack) - 1)
       IN  IF ~InBounds(c, width, height) \/ c \in visited
           THEN /\ stack' = rest
                /\ UNCHANGED <<visited, image, written, tally>>
           ELSE /\ visited' = insert(visited, c)
                /\ IF color_similarity(image_rgba_to_palette_srgb(image[c]),
                                       image_rgba_to_palette_srgb(target_color)) > fuzz
                   THEN /\ stack' = rest
                        /\ tally' = [tally EXCEPT !.admitted[c] = @ + 1]
                        /\ UNCHANGED <<image, written>>
                   ELSE /\ image' = PutPixel(image, c, replacement_color)
                        /\ written' = [written EXCEPT ![c] = @ + 1]
                        /\ stack' = rest \o Neighbours(c)
                        /\ tally' = [tally EXCEPT
                                         !.admitted[c] = @ + 1,
                                         !.pushed = @ + Len(Neighbours(c))]
    /\ UNCHANGED <<dimVars, seed, target_color, replacement_color,
                   fuzz, todo, original, results, pc, maskVars>>
    /\ UNCHANGED <<procVars, runVars, dpiVars, callVars>>

\* stack.pop() yields None: the loop ends and flood_fill returns
FloodFillReturn ==
    /\ pc = "loop"
    /\ stack = <<>>
    /\ results' = Append(results, image)
    /\ todo' = todo - 1
    /\ pc' = IF todo > 1 THEN "call" ELSE "done"
    /\ UNCHANGED <<dimVars, image, seed, target_color,
                   replacement_color, fuzz, stack, visited, original, written,
                   tally, maskVars>>
    /\ UNCHANGED <<procVars, runVars, dpiVars, callVars>>

----------------------------------------------------------------------------
(* drawing::draw_border *)

\* imageproc Rect::at(left, top).of_size(width, height)
Rect(left, top, w, h) == [left |-> left, top |-> top, width |-> w, height |-> h]

\* Rect::right, Rect::bottom
RectRight(r) == r.left + r.width - 1
RectBottom(r) == r.top + r.height - 1

\* a pixel is inside the rectangle
RectContains(r, c) ==
    /\ r.left <= c[1] /\ c[1] <= RectRight(r)
    /\ r.top <= c[2] /\ c[2] <= RectBottom(r)

\* a hollow rectangle that leaves out its bottom edge
draw_hollow_rect_open(img, r, color) ==
    [c \in DOMAIN img |->
        IF RectContains(r, c)
           /\ (c[1] = r.left \/ c[1] = RectRight(r) \/ c[2] = r.top)
        THEN color ELSE img[c]]

\* v lies between p and q, whichever is the greater
Between(v, p, q) == (p <= v /\ v <= q) \/ (q <= v /\ v <= p)

\* imageproc::drawing::draw_hollow_rect_mut: the four line segments between
\* the corners of the rectangle, clipped to the canvas.  right() and
\* bottom() are left + (width as i32) - 1 and top + (height as i32) - 1, so
\* with a wrapped size (a negative width or height here) the segments run
\* backwards from left and top
draw_hollow_rect_mut(img, r, color) ==
    [c \in DOMAIN img |->
        IF \/ /\ c[2] \in {r.top, RectBottom(r)}
              /\ Between(c[1], r.left, RectRight(r))
           \/ /\ c[1] \in {r.left, RectRight(r)}
              /\ Between(c[2], r.top, RectBottom(r))
        THEN color ELSE img[c]]

\* the loop of draw_border, from `offset` on
RECURSIVE draw_border_from(_, _, _, _, _, _, _, _)
draw_border_from(img, color, x, y, w, h, thickness, offset) ==
    IF offset >= thickness THEN img
    ELSE draw_border_from(
             draw_hollow_rect_mut(
                 img, Rect(x + offset, y + offset, w - offset * 2, h - offset * 2),
                 color),
             color, x, y, w, h, thickness, offset + 1)

\* width - offset * 2 underflows, or of_size is given a zero size
draw_border_fails(w, h, thickness) ==
    \E offset \in 0 .. thickness - 1 : w <= offset * 2 \/ h <= offset * 2

draw_border(img, color, x, y, w, h, thickness) ==
    draw_border_from(img, color, x, y, w, h, thickness, 0)

\* draw_border on any arguments, from `offset` on, with what has been drawn
\* when it panics.  width - offset * 2 and height - offset * 2 are u32: on
\* underflow a build with overflow checks panics and a build without them
\* wraps (a negative size n stands for the u32 value 2^32 + n); of_size
\* panics when given a zero width or height
RECURSIVE draw_border_run(_, _, _, _, _, _, _, _, _)
draw_border_run(img, color, x, y, w, h, thickness, offset, checks) ==
    IF offset >= thickness THEN [status |-> "ok", image |-> img]
    ELSE IF checks /\ (w - offset * 2 < 0 \/ h - offset * 2 < 0)
    THEN [status |-> "panic", image |-> img]
    ELSE IF w - offset * 2 = 0 \/ h - offset * 2 = 0
    THEN [status |-> "panic", image |-> img]
    ELSE draw_border_run(
             draw_hollow_rect_mut(
                 img, Rect(x + offset, y + offset, w - offset * 2, h - offset * 2),
                 color),
             color, x, y, w, h, thickness, offset + 1, checks)

\* BlobExtractor::new: border_thickness: 1
border_thickness == 1

\* BlobExtractor::process: draw a thin border with the chroma key colour, then
\* flood fill from (0, 0); target_color is the chroma key, replacement_color
\* the transparent floodfill_color, fuzz the configured floodfill_fuzz
DrawBorder ==
    /\ pc = "border"
    /\ IF draw_border_fails(width, height, border_thickness)
       THEN /\ pc' = "panic"
            /\ UNCHANGED image
       ELSE /\ image' = draw_border(image, target_color, 0, 0, width, height,
                                    border_thickness)
            /\ pc' = "call"
    /\ UNCHANGED <<dimVars, seed, target_color, replacement_color, fuzz,
                   stack, visited, todo, original, written, tally, results,
                   maskVars>>
    /\ UNCHANGED <<procVars, runVars, dpiVars, callVars>>

----------------------------------------------------------------------------
(* alpha_channel::extract and alpha_channel::replace *)

\* the red channel taken for the alpha channel
extract_red(img) == [c \in DOMAIN img |-> img[c][1]]

\* extract: a new Luma buffer of the image's size holding pixel[3] of each pixel
extract(img) == [c \in DOMAIN img |-> img[c][4]]

\* gray_image.get_pixel(x, y) panics outside the gray image
replace_panics(img, gray) == \E c \in DOMAIN img : c \notin DOMAIN gray

\* replace: each pixel keeps pixel[0..2] and takes the gray pixel as pixel[3]
replace(img, gray) ==
    [c \in DOMAIN img |-> <<img[c][1], img[c][2], img[c][3], gray[c]>>]

AlphaExtract ==
    /\ pc = "extract"
    /\ gray_image' = extract(source)
    /\ pc' = "replace"
    /\ UNCHANGED <<dimVars, fillVars, mask, source, source0, components, blobs,
                   bounding_box, overflow_checks>>
    /\ UNCHANGED <<procVars, runVars, dpiVars, callVars>>

AlphaReplace ==
    /\ pc = "replace"
    /\ IF replace_panics(image, gray_image)
       THEN /\ pc' = "panic"
            /\ UNCHANGED image
       ELSE /\ image' = replace(image, gray_image)
            /\ pc' = "done"
    /\ UNCHANGED <<dimVars, seed, target_color, replacement_color, fuzz,
                   stack, visited, todo, original, written, tally, results,
                   maskVars>>
    /\ UNCHANGED <<procVars, runVars, dpiVars, callVars>>

----------------------------------------------------------------------------
(* detection::compute_bounding_box *)

\* the loop over enumerate_pixels, from the i-th pixel on; acc holds left,
\* top, right and bottom
RECURSIVE bounding_box_scan(_, _, _, _)
bounding_box_scan(img, pixels, i, acc) ==
    IF i > Len(pixels) THEN acc
    ELSE LET x == pixels[i][1]
             y == pixels[i][2]
         IN  IF img[pixels[i]] = 0
             THEN bounding_box_scan(img, pixels, i + 1, acc)
             ELSE bounding_box_scan(img, pixels, i + 1,
                      [left   |-> IF x < acc.left THEN x ELSE acc.left,
                       right  |-> IF x > acc.right THEN x ELSE acc.right,
                       top    |-> IF y < acc.top THEN y ELSE acc.top,
                       bottom |-> IF y > acc.bottom THEN y ELSE acc.bottom])

Panic == [status |-> "panic", rect |-> None]

\* let mut left = image.width(); top = image.height(); right = 0; bottom = 0
unset_box(w, h) == [left |-> w, top |-> h, right |-> 0, bottom |-> 0]

\* Rect::at(left, top).of_size(right - left, bottom - top).  The two
\* subtractions are u32: on underflow a build with overflow checks panics and
\* a build without them wraps (a negative size n stands for the u32 value
\* 2^32 + n).  of_size panics when given a zero width or height.
bounding_box_of_size(s, checks) ==
    IF s.right < s.left \/ s.bottom < s.top
    THEN IF checks THEN Panic
         ELSE [status |-> "wrapped",
               rect |-> Rect(s.left, s.top, s.right - s.left, s.bottom - s.top)]
    ELSE IF s.right - s.left = 0 \/ s.bottom - s.top = 0 THEN Panic
    ELSE [status |-> "ok",
          rect |-> Rect(s.left, s.top, s.right - s.left, s.bottom - s.top)]

compute_bounding_box(img, w, h, checks) ==
    bounding_box_of_size(
        bounding_box_scan(img, EnumeratePixels(w, h), 1, unset_box(w, h)),
        checks)

ComputeBoundingBox ==
    /\ pc = "bbox"
    /\ bounding_box' = compute_bounding_box(mask, width, height, overflow_checks)
    /\ pc' = "done"
    /\ UNCHANGED <<dimVars, fillVars, mask, gray_image, source, source0,
                   components, blobs, overflow_checks>>
    /\ UNCHANGED <<procVars, runVars, dpiVars, callVars>>

----------------------------------------------------------------------------
(* extraction::extract_blobs *)

RECURSIVE SameValueClosure(_, _)
SameValueClosure(img, S) ==
    LET T == S \cup {c \in DOMAIN img :
                       \E d \in S : Adjacent(c, d) /\ img[c] = img[d]}
    IN  IF T = S THEN S ELSE SameValueClosure(img, T)

\* position of a pixel in row-major order
RasterIndex(c, w) == c[2] * w + c[1]

SetMin(S) == CHOOSE m \in S : \A n \in S : m <= n

\* imageproc::region_labelling::connected_components with Connectivity::Four
\* and background Luma([0]): 0 for background pixels; the 4-connected regions
\* of equal value are numbered 1, 2, ... in the row-major order of their
\* first pixels
connected_components(img, w, h) ==
    LET fg == {c \in DOMAIN img : img[c] # 0}
        first == [c \in fg |->
                    SetMin({RasterIndex(d, w) : d \in SameValueClosure(img, {c})})]
        firsts == {first[c] : c \in fg}
    IN  [c \in DOMAIN img |->
            IF img[c] = 0 THEN 0
            ELSE Cardinality({f \in firsts : f <= first[c]})]

\* the label used as the index without the subtraction
blob_index_same(label) == label

\* let index = index - 1;
blob_index(label) == label - 1

\* the loop of extract_blobs over image_components.enumerate_pixels(), from
\* the i-th pixel on; acc is the vector blobs
RECURSIVE extract_blobs_scan(_, _, _, _, _, _)
extract_blobs_scan(comps, pixels, i, w, h, acc) ==
    IF i > Len(pixels) THEN acc
    ELSE IF comps[pixels[i]] = 0
         THEN extract_blobs_scan(comps, pixels, i + 1, w, h, acc)
         ELSE LET slot == blob_index(comps[pixels[i]])
                  \* blobs.get_mut(slot).is_none(): push a new buffer
                  pushed == IF slot >= Len(acc) \/ slot < 0
                            THEN Append(acc, NewLuma(w, h))
                            ELSE acc
                  \* blobs.get_mut(slot) again: put the pixel if it is there
                  put == IF slot >= 0 /\ slot < Len(pushed)
                         THEN [pushed EXCEPT ![slot + 1] = PutPixel(@, pixels[i], 255)]
                         ELSE pushed
              IN  extract_blobs_scan(comps, pixels, i + 1, w, h, put)

extract_blobs(comps, w, h) ==
    extract_blobs_scan(comps, EnumeratePixels(w, h), 1, w, h, <<>>)

\* the labelling collaborator, called first by extract_blobs
LabelComponents ==
    /\ pc = "label"
    /\ components' = connected_components(mask, width, height)
    /\ pc' = "split"
    /\ UNCHANGED <<dimVars, fillVars, mask, gray_image, source, source0, blobs,
                   bounding_box, overflow_checks>>
    /\ UNCHANGED <<procVars, runVars, dpiVars, callVars>>

\* the rest of extract_blobs
ExtractBlobs ==
    /\ pc = "split"
    /\ blobs' = extract_blobs(components, width, height)
    /\ pc' = "done"
    /\ UNCHANGED <<dimVars, fillVars, mask, gray_image, source, source0,
                   components, bounding_box, overflow_checks>>
    /\ UNCHANGED <<procVars, runVars, dpiVars, callVars>>

----------------------------------------------------------------------------
(* detection::compute_center_from_rectangle and                             *)
(* detection::compute_deskew_angle_for_rectangle.  Angles handed over as    *)
(* f32 are in hundredths of a degree, radians in thousandths.               *)

\* Point::new(rect.left() as u32 + rect.width() / 2, rect.top() as u32 + ...)
compute_center_from_rectangle(rect) ==
    [x |-> rect.left + rect.width \div 2, y |-> rect.top + rect.height \div 2]

\* lines.truncate(config.max_lines)
truncate(l, n) == SubSeq(l, 1, IF Len(l) < n THEN Len(l) ELSE n)

\* an f32 cast with "as i32": the fraction is dropped, towards zero
as_i32(x) == IF x >= 0 THEN x \div 100 ELSE -((-x) \div 100)

\* the line turned back as soon as it reaches the limit
turn_back_at_limit(a, max_blob_rotation) ==
    IF a >= as_i32(max_blob_rotation) THEN a - 90 ELSE a

\* .map(|a| if a > config.max_blob_rotation as i32 { a - 90 } else { a })
turn_back(a, max_blob_rotation) ==
    IF a > as_i32(max_blob_rotation) THEN a - 90 ELSE a

\* .sorted()
RECURSIVE sorted(_)
sorted(s) ==
    IF s = <<>> THEN <<>>
    ELSE LET m == SetMin({s[i] : i \in DOMAIN s})
             k == SetMin({i \in DOMAIN s : s[i] = m})
         IN  <<m>> \o sorted(SubSeq(s, 1, k - 1) \o SubSeq(s, k + 1, Len(s)))

\* let angles: Vec<i32> = lines.iter().map(..).map(..).map(..).sorted()
line_angles(l, max_blob_rotation) ==
    sorted([i \in DOMAIN l |->
               turn_back(turn_back(l[i], max_blob_rotation), max_blob_rotation)])

\* the median of a non-empty sorted vector, as f32; angles[mid - 1] and
\* angles[mid] are the 0-based elements
median(angles) ==
    LET mid == Len(angles) \div 2
    IN  IF Len(angles) % 2 = 0
        THEN (angles[mid] * 100 + angles[mid + 1] * 100) \div 2
        ELSE angles[mid + 1] * 100

\* let inverted_angle = angle * -1.0
inverted_angle(angle) == angle * (-1)

\* angle * PI / 180.0
angle_to_radians(angle) ==
    IF angle >= 0 THEN (angle * 31416) \div 180000
    ELSE -(((-angle) * 31416) \div 180000)

\* (center.x as f32, center.y as f32)
point_to_tuple(p) == <<p.x, p.y>>

----------------------------------------------------------------------------
(* Pixel density: Dpi and the readers of a file's metadata.  An Option is   *)
(* a sequence of at most one value, a Dpi the pair <<x, y>>.  A byte string *)
(* is kept as what each parser finds in it: tiff is what exif::Reader's     *)
(* read_raw makes of it, jpeg and segments what jfifdump::Reader does.      *)

\* (v as f32 * factor) as u32, the factor in hundredths: the cast drops the
\* fraction
scaled(v, hundredths) == (v * hundredths) \div 100

\* Dpi::from
from(x, y) == <<x, y>>

\* the density taken over as it stands
from_centimeter_unconverted(x, y) == <<x, y>>

\* Dpi::from_centimeter
from_centimeter(x, y) == <<scaled(x, 254), scaled(y, 254)>>

\* Dpi::x_in_meters
x_in_meters(d) == scaled(d[1], 3937)

\* Dpi::y_in_meters
y_in_meters(d) == scaled(d[2], 3937)

\* value.to_f32() as u32 of a Rational <<num, denom>>
to_u32(value) == value[1] \div value[2]

\* match &exif.get_field(..)?.value { Value::Rational(vec) =>
\* vec.first().map(|value| value.to_f32() as u32), _ => return None }?
resolution(field) ==
    IF field.kind = "rational" /\ field.vals # <<>>
    THEN <<to_u32(field.vals[1])>>
    ELSE <<>>

\* read_dpi_from_exif
read_dpi_from_exif(exif_raw) ==
    LET exif == exif_raw.tiff
        x_res == resolution(exif.x)
        y_res == resolution(exif.y)
    IN  IF ~exif.readable \/ exif.unit = <<>> THEN <<>>
        ELSE IF x_res = <<>> \/ y_res = <<>> THEN <<>>
        ELSE CASE exif.unit[1] = 2 -> <<from(x_res[1], y_res[1])>>
               [] exif.unit[1] = 3 -> <<from_centimeter(x_res[1], y_res[1])>>
               [] OTHER -> <<>>

\* the loop of read_dpi_from_jfif from the i-th segment on; at the end of
\* the input next_segment fails
RECURSIVE next_segment(_, _)
next_segment(segments, i) ==
    IF i > Len(segments) THEN <<>>
    ELSE LET jfif == segments[i]
         IN  CASE jfif.kind = "error" -> <<>>
               [] jfif.kind = "eoi" -> <<>>
               [] jfif.kind = "app0" ->
                      (CASE jfif.unit = 1 ->
                                <<from(jfif.x_density, jfif.y_density)>>
                         [] jfif.unit = 2 ->
                                <<from_centimeter(jfif.x_density,
                                                  jfif.y_density)>>
                         [] OTHER -> <<>>)
               [] OTHER -> next_segment(segments, i + 1)

\* read_dpi_from_jfif
read_dpi_from_jfif(file_contents) ==
    IF ~file_contents.jpeg THEN <<>>
    ELSE next_segment(file_contents.segments, 1)

\* dpi::decoder::read_from_bytes: the first reader that has something
read_from_bytes(file_contents, exif) ==
    LET e == IF exif = <<>> THEN file_contents ELSE exif[1]
    IN  IF read_dpi_from_exif(e) # <<>>
        THEN read_dpi_from_exif(e)
        ELSE read_dpi_from_jfif(file_contents)

\* io::read_dpi_from_metadata, which open_image calls
read_dpi_from_metadata(file_contents, exif) ==
    IF exif # <<>>
    THEN read_dpi_from_exif(exif[1])
    ELSE read_dpi_from_jfif(file_contents)

\* the detected density used whatever the flag
chosen_dpi_flag_unread(maybe, ignore_detected_dpi, fallback) ==
    IF maybe # <<>> THEN maybe[1] ELSE <<fallback, fallback>>

\* process: let dpi = match maybe_dpi { .. }
chosen_dpi(maybe, ignore_detected_dpi, fallback) ==
    IF maybe # <<>>
    THEN IF ignore_detected_dpi THEN <<fallback, fallback>> ELSE maybe[1]
    ELSE <<fallback, fallback>>

\* encoder.set_pixel_dims of save_rgba_image_as
pixel_dims(d) == <<x_in_meters(d), y_in_meters(d)>>

----------------------------------------------------------------------------
(* BlobExtractor::process, one action per stage.  Of a buffer the pipeline  *)
(* keeps the size and, for every pixel, the blobs whose pixels its value    *)
(* has been computed from; a pixel computed from the file only is Unknown.  *)

Unknown == {}

Buffer(w, h) == [c \in Coords(w, h) |-> Unknown]

\* the blobs a buffer has been computed from
origins(buf) == UNION {buf[c] : c \in DOMAIN buf}

\* to_rgba8, alpha_channel::extract, erode_mut, dilate_mut, rotate and
\* gaussian_blur_f32 give a buffer of the size of their argument, computed
\* from its pixels
to_rgba8(buf) == [c \in DOMAIN buf |-> origins(buf)]

extract_size(buf) == [c \in DOMAIN buf |-> origins(buf)]

clean_size(buf) == [c \in DOMAIN buf |-> origins(buf)]

rotate(buf, center_tuple, theta) == [c \in DOMAIN buf |-> origins(buf)]

gaussian_blur_f32(buf) == [c \in DOMAIN buf |-> origins(buf)]

\* a blob that holds the pixels of the blobs before it as well
blob_with_earlier(m, i) == [c \in DOMAIN m |-> 1 .. i]

\* the i-th blob of extract_blobs: a new buffer of the size of the mask
\* with the pixels of one component
blob_of(m, i) == [c \in DOMAIN m |-> origins(m) \cup {i}]

\* alpha_channel::replace(&mut img, &gray) followed by
\* crop_imm(&img, ..).to_image() into the buffer cropped, the rectangle
\* being the bounding box of gray
replaced_and_cropped(img, gray, cropped) ==
    [c \in DOMAIN cropped |-> origins(img) \cup origins(gray)]

\* imageops::crop_imm(image, x, y, width, height).to_image() on an image of
\* size w by h: x, y, width and height are cut to fit (a negative cw or ch
\* stands for a u32 value above 2^31)
crop_imm(w, h, x, y, cw, ch) ==
    LET x1 == IF x < w THEN x ELSE w
        y1 == IF y < h THEN y ELSE h
        h1 == IF ch < 0 \/ ch > h - y1 THEN h - y1 ELSE ch
        w1 == IF cw < 0 \/ cw > w - x1 THEN w - x1 ELSE cw
    IN  Buffer(w1, h1)

\* the arguments of the rotation of the mask and of the colour image
RotateMask(c, angle) ==
    [center |-> point_to_tuple(c), theta |-> angle_to_radians(angle)]

\* the colour image turned the other way
RotateColorReversed(c, angle) ==
    [center |-> point_to_tuple(c), theta |-> angle_to_radians(-angle)]

RotateColor(c, angle) ==
    [center |-> point_to_tuple(c), theta |-> angle_to_radians(angle)]

\* Result values of process
Pending == [kind |-> "Pending"]

Ok == [kind |-> "Ok"]

Err(op, b) == [kind |-> "Err", op |-> op, blob |-> b]

\* the calls of process that return a Result
Fallible ==
    {"open_image", "save a-border", "save b-floodfilled", "save c-mask",
     "save d-mask-cleaned", "save e-with-mask", "save mask-a",
     "save mask-b-edges", "save mask-c-lines", "save mask-d-deskewed",
     "save blob", "LepTess::new", "set_variable TesseditPagesegMode",
     "set_variable PreserveInterwordSpaces", "set_image", "get_utf8_text",
     "fs::write"}

\* what the calls ops can give, one outcome each
Outcomes(ops) ==
    {outs \in [DOMAIN ops -> {"ok", "err"}] :
        \A i \in DOMAIN ops : ops[i] \notin Fallible => outs[i] = "ok"}

\* no value makes process return early
PropagatesNever(r) == FALSE

\* the ? operator: an Err makes process return it
Propagates(r) == r = "err"

\* the position of the call that makes process return, 0 when none does
FirstErr(ops, outs) ==
    LET F == {i \in DOMAIN ops : Propagates(outs[i])}
    IN  IF F = {} THEN 0 ELSE SetMin(F)

\* the calls of ops that are executed, as entries of the trace
Entries(ops, b, outs) ==
    LET k == FirstErr(ops, outs)
    IN  [i \in 1 .. (IF k = 0 THEN Len(ops) ELSE k) |->
            [op |-> ops[i], blob |-> b, ok |-> outs[i] = "ok"]]

\* if self.save_intermediary_images { io::save_..._as(.., name)?; }
Saves(name) == IF cfg.save_intermediary_images THEN <<name>> ELSE <<>>

\* BlobExtractor::new: base_path = base_dir.join(&base_filename), the path
\* without its extension
base_path(path) == path.stem

\* format!("{}-{}.{}", base_path.display(), suffix, "png") of
\* save_luma_image_as and save_rgba_image_as
save_filename(base, suffix) == [base |-> base, suffix |-> suffix, ext |-> "png"]

\* the suffix process gives to each save, as its format string and the
\* blob_number put in it (0 when it has no place for one)
suffix_of(op, n) ==
    CASE op = "save a-border" -> [fmt |-> "a-border", arg |-> 0]
      [] op = "save b-floodfilled" -> [fmt |-> "b-floodfilled", arg |-> 0]
      [] op = "save c-mask" -> [fmt |-> "c-mask", arg |-> 0]
      [] op = "save d-mask-cleaned" -> [fmt |-> "d-mask-cleaned", arg |-> 0]
      [] op = "save e-with-mask" -> [fmt |-> "e-with-mask", arg |-> 0]
      [] op = "save mask-a" -> [fmt |-> "mask-{}-a", arg |-> n]
      [] op = "save mask-b-edges" -> [fmt |-> "mask-{}-b-edges", arg |-> n]
      [] op = "save mask-c-lines" -> [fmt |-> "mask-{}-c-lines", arg |-> n]
      [] op = "save mask-d-deskewed" ->
             [fmt |-> "mask-{}-d-deskewed", arg |-> n]
      [] op = "save blob" -> [fmt |-> "{}", arg |-> n]

SaveOps ==
    {"save a-border", "save b-floodfilled", "save c-mask",
     "save d-mask-cleaned", "save e-with-mask", "save mask-a",
     "save mask-b-edges", "save mask-c-lines", "save mask-d-deskewed",
     "save blob"}

\* format!("{}-{}.{}", self.base_path.display(), blob_number, "png"), "txt"
img_filename(base, n) ==
    [base |-> base, suffix |-> [fmt |-> "{}", arg |-> n], ext |-> "png"]

text_filename(base, n) ==
    [base |-> base, suffix |-> [fmt |-> "{}", arg |-> n], ext |-> "txt"]

\* the file a call of process writes to, the file it reads, if any
Target(entry, base) ==
    IF entry.op \in SaveOps
    THEN {save_filename(base, suffix_of(entry.op, entry.blob))}
    ELSE IF entry.op = "fs::write" THEN {text_filename(base, entry.blob)}
    ELSE {}

Reads(entry, base) ==
    IF entry.op = "set_image" THEN {img_filename(base, entry.blob)} ELSE {}

\* File::create and the write that follows: the file of that name is
\* replaced; whole is FALSE when the write failed part-way
write_file(f, name, blob_no, header, whole) ==
    {e \in f : e.name # name}
        \cup {[name |-> name, by |-> file + 1, blob |-> blob_no,
               dpi |-> header.dpi, ppu |-> header.ppu, whole |-> whole]}

\* the saves done by save_rgba_image_as
RgbaSaves ==
    {"save a-border", "save b-floodfilled", "save e-with-mask", "save blob"}

\* what a call is given as dpi and puts into the pHYs chunk of its file:
\* save_rgba_image_as alone takes a density and sets pixel dimensions
header_of(entry) ==
    IF entry.op \in RgbaSaves
    THEN [dpi |-> dpi, ppu |-> pixel_dims(dpi)]
    ELSE [dpi |-> <<>>, ppu |-> <<>>]

\* the files after the calls es, from the i-th on, that returned Ok
RECURSIVE after_entries(_, _, _, _)
after_entries(f, es, i, base) ==
    IF i > Len(es) THEN f
    ELSE after_entries(
             IF es[i].ok /\ Target(es[i], base) # {}
             THEN write_file(f, CHOOSE n \in Target(es[i], base) : TRUE,
                             es[i].blob, header_of(es[i]), TRUE)
             ELSE f,
             es, i + 1, base)

\* run ops for blob b (0 before the loop): return the first Err, or go on.
\* A save or write that fails may have left a part of its file
Attempt(ops, b, outs, next) ==
    /\ trace' = trace \o Entries(ops, b, outs)
    /\ IF FirstErr(ops, outs) # 0
       THEN /\ result' = Err(ops[FirstErr(ops, outs)], b)
            /\ pc' = "returned"
       ELSE /\ result' = result
            /\ pc' = next
    /\ LET es == Entries(ops, b, outs)
           last == es[Len(es)]
           done == after_entries(fs, es, 1, cfg.base_path)
       IN  IF ~last.ok /\ Target(last, cfg.base_path) # {}
           THEN fs' \in {done,
                         write_file(done,
                             CHOOSE n \in Target(last, cfg.base_path) : TRUE,
                             last.blob, header_of(last), FALSE)}
           ELSE fs' = done

\* variables process never touches, and those set before it starts
\* the same without the lines detect_lines returned
loopIdleVars ==
    <<fillVars, mask, gray_image, source, source0, components, runVars,
      readerVars, similarity, border, deskew, hull, skew>>

idleVars == <<loopIdleVars, detected_lines>>

setupVars == <<dimVars, overflow_checks, cfg, metadata>>

\* blobs numbered from 0
blob_number_from_zero == index

\* for (index, blob) in blobs.iter().enumerate(): blob_number
blob_number == index + 1

\* io::open_image: the image, and the density its metadata gives
open_image(m) ==
    [image |-> Buffer(width, height),
     dpi |-> read_dpi_from_metadata(m.file_contents, m.exif)]

\* let (image, maybe_dpi) = io::open_image(&self.file)?; the choice of dpi;
\* image.to_rgba8()
ProcessOpen ==
    /\ pc = "open"
    /\ \E outs \in Outcomes(<<"open_image">>) :
           /\ Attempt(<<"open_image">>, 0, outs, "draw_border")
           /\ IF FirstErr(<<"open_image">>, outs) = 0
              THEN /\ image_rgba' = to_rgba8(open_image(metadata).image)
                   /\ maybe_dpi' = open_image(metadata).dpi
                   /\ dpi' = chosen_dpi(open_image(metadata).dpi,
                                        cfg.ignore_detected_dpi, cfg.dpi)
              ELSE UNCHANGED <<image_rgba, maybe_dpi, dpi>>
    /\ UNCHANGED <<idleVars, setupVars, image_mask, blobs, index, blob,
                   blob_rgba, bounding_box, center, lines, deskew_angle,
                   mask_rotation, rgba_rotation, replacements>>

\* drawing::draw_border(&mut image_rgba, ..), saved as "a-border"
ProcessBorder ==
    /\ pc = "draw_border"
    /\ IF draw_border_fails(width, height, border_thickness)
       THEN /\ pc' = "panic"
            /\ UNCHANGED <<trace, result, fs>>
       ELSE LET ops == <<"draw_border">> \o Saves("save a-border")
            IN  \E outs \in Outcomes(ops) : Attempt(ops, 0, outs, "flood_fill")
    /\ UNCHANGED <<idleVars, setupVars, openedVars, image_rgba, image_mask, blobs, index,
                   blob, blob_rgba, bounding_box, center, lines, deskew_angle,
                   mask_rotation, rgba_rotation, replacements>>

\* drawing::flood_fill(&mut image_rgba, 0, 0, ..), saved as "b-floodfilled"
ProcessFloodFill ==
    /\ pc = "flood_fill"
    /\ LET ops == <<"flood_fill">> \o Saves("save b-floodfilled")
       IN  \E outs \in Outcomes(ops) : Attempt(ops, 0, outs, "extract_alpha")
    /\ UNCHANGED <<idleVars, setupVars, openedVars, image_rgba, image_mask, blobs, index,
                   blob, blob_rgba, bounding_box, center, lines, deskew_angle,
                   mask_rotation, rgba_rotation, replacements>>

\* let mut image_mask = alpha_channel::extract(&image_rgba), saved as "c-mask"
ProcessExtractAlpha ==
    /\ pc = "extract_alpha"
    /\ image_mask' = extract_size(image_rgba)
    /\ LET ops == <<"extract">> \o Saves("save c-mask")
       IN  \E outs \in Outcomes(ops) : Attempt(ops, 0, outs, "clean_mask")
    /\ UNCHANGED <<idleVars, setupVars, openedVars, image_rgba, blobs, index, blob,
                   blob_rgba, bounding_box, center, lines, deskew_angle,
                   mask_rotation, rgba_rotation, replacements>>

\* erode_mut and dilate_mut on image_mask, saved as "d-mask-cleaned"
ProcessCleanMask ==
    /\ pc = "clean_mask"
    /\ image_mask' = clean_size(clean_size(image_mask))
    /\ LET ops == <<"erode_mut", "dilate_mut">> \o Saves("save d-mask-cleaned")
       IN  \E outs \in Outcomes(ops) : Attempt(ops, 0, outs, "replace_alpha")
    /\ UNCHANGED <<idleVars, setupVars, openedVars, image_rgba, blobs, index, blob,
                   blob_rgba, bounding_box, center, lines, deskew_angle,
                   mask_rotation, rgba_rotation, replacements>>

\* alpha_channel::replace(&mut image_rgba, &image_mask), saved as
\* "e-with-mask"
ProcessReplaceAlpha ==
    /\ pc = "replace_alpha"
    /\ replacements' = Append(replacements,
                              [image |-> image_rgba, gray |-> image_mask])
    /\ IF replace_panics(image_rgba, image_mask)
       THEN /\ pc' = "panic"
            /\ UNCHANGED <<trace, result, fs>>
       ELSE LET ops == <<"replace">> \o Saves("save e-with-mask")
            IN  \E outs \in Outcomes(ops) :
                    Attempt(ops, 0, outs, "extract_blobs")
    /\ UNCHANGED <<idleVars, setupVars, openedVars, image_rgba, image_mask, blobs, index,
                   blob, blob_rgba, bounding_box, center, lines, deskew_angle,
                   mask_rotation, rgba_rotation>>

\* let blobs = extraction::extract_blobs(&image_mask): any number of blobs,
\* each of the size of image_mask and with a pixel of its own
ProcessExtractBlobs ==
    /\ pc = "extract_blobs"
    /\ \E n \in 0 .. MaxBlobs :
           /\ n <= Cardinality(DOMAIN image_mask)
           /\ blobs' = [i \in 1 .. n |-> blob_of(image_mask, i)]
    /\ index' = 0
    /\ Attempt(<<"extract_blobs">>, 0, [i \in {1} |-> "ok"], "next_blob")
    /\ UNCHANGED <<idleVars, setupVars, openedVars, image_rgba, image_mask, blob,
                   blob_rgba, bounding_box, center, lines, deskew_angle,
                   mask_rotation, rgba_rotation, replacements>>

\* the head of the loop over blobs: Ok(()) after the last blob, otherwise the
\* next blob, saved as "mask-{blob_number}-a"
ProcessNextBlob ==
    /\ pc = "next_blob"
    /\ IF index >= Len(blobs)
       THEN /\ result' = Ok
            /\ pc' = "returned"
            /\ UNCHANGED <<trace, blob, fs>>
       ELSE /\ blob' = blobs[index + 1]
            /\ LET ops == <<"next">> \o Saves("save mask-a")
               IN  \E outs \in Outcomes(ops) :
                       Attempt(ops, blob_number, outs, "bounding_box")
    /\ UNCHANGED <<idleVars, setupVars, openedVars, image_rgba, image_mask, blobs, index,
                   blob_rgba, bounding_box, center, lines, deskew_angle,
                   mask_rotation, rgba_rotation, replacements>>

\* the extents of the non-black pixels of a mask that has some
Extents(w, h) ==
    {[left |-> l, top |-> t, right |-> r, bottom |-> b] :
        <<l, t, r, b>> \in
            {q \in (0 .. w - 1) \X (0 .. h - 1) \X (0 .. w - 1) \X (0 .. h - 1) :
                q[1] <= q[3] /\ q[2] <= q[4]}}

\* compute_bounding_box and compute_center_from_rectangle on the blob, whose
\* non-black pixels may lie anywhere
ProcessBoundingBox ==
    /\ pc = "bounding_box"
    /\ \E s \in Extents(width, height) :
           LET bb == bounding_box_of_size(s, overflow_checks)
           IN  /\ bounding_box' = bb
               /\ IF bb.status = "panic"
                  THEN /\ pc' = "panic"
                       /\ UNCHANGED <<trace, result, center, fs>>
                  ELSE /\ center' = compute_center_from_rectangle(bb.rect)
                       /\ Attempt(<<"compute_bounding_box",
                                    "compute_center_from_rectangle">>,
                                  blob_number,
                                  [i \in {1, 2} |-> "ok"], "deskew")
    /\ UNCHANGED <<idleVars, setupVars, openedVars, image_rgba, image_mask, blobs, index,
                   blob, blob_rgba, lines, deskew_angle, mask_rotation,
                   rgba_rotation, replacements>>

\* the median taken without looking whether any line was found
compute_deskew_angle_unguarded(detected, max_lines, max_blob_rotation) ==
    LET kept == truncate(detected, max_lines)
    IN  IF kept = <<>>
        THEN [status |-> "panic", lines |-> kept, angles |-> <<>>,
              angle |-> 0]
        ELSE [status |-> "ok", lines |-> kept,
              angles |-> line_angles(kept, max_blob_rotation),
              angle |-> inverted_angle(
                            median(line_angles(kept, max_blob_rotation)))]

\* compute_deskew_angle_for_rectangle on the lines detect_lines found: 0.0
\* when there are none, otherwise the inverted median of the lines kept;
\* with no line kept angles[mid - 1] is out of range
compute_deskew_angle_for_rectangle(detected, max_lines, max_blob_rotation) ==
    IF detected = <<>>
    THEN [status |-> "ok", lines |-> detected, angles |-> <<>>, angle |-> 0]
    ELSE LET kept == truncate(detected, max_lines)
         IN  IF kept = <<>>
             THEN [status |-> "panic", lines |-> kept, angles |-> <<>>,
                   angle |-> 0]
             ELSE [status |-> "ok", lines |-> kept,
                   angles |-> line_angles(kept, max_blob_rotation),
                   angle |-> inverted_angle(
                                 median(line_angles(kept, max_blob_rotation)))]

\* angle_in_degrees of the lines detect_lines may return
DetectedAngles == {3, 45, 176}

\* what detect_lines may find: angle_in_degrees of each line, in its order
DetectedLines ==
    UNION {[1 .. n -> DetectedAngles] : n \in 0 .. MaxDetected}

\* let deskew_angle = detection::compute_deskew_angle_for_rectangle(..)?,
\* with its saves "mask-{blob_number}-b-edges" and "-c-lines"
ProcessDeskew ==
    /\ pc = "deskew"
    /\ \E detected \in DetectedLines :
           LET ops == <<"canny">> \o Saves("save mask-b-edges")
                          \o <<"detect_lines">>
                          \o (IF detected = <<>> THEN <<>>
                              ELSE <<"truncate", "draw_polar_lines_mut">>
                                       \o Saves("save mask-c-lines")
                                       \o <<"median">>)
               d == compute_deskew_angle_for_rectangle(
                        detected, cfg.max_lines, cfg.max_blob_rotation)
           IN  \E outs \in Outcomes(ops) :
                   IF FirstErr(ops, outs) # 0
                   THEN /\ Attempt(ops, blob_number, outs, "rotate_mask")
                        /\ UNCHANGED <<detected_lines, lines, deskew_angle>>
                   ELSE IF d.status = "panic"
                   THEN /\ pc' = "panic"
                        /\ detected_lines' = detected
                        /\ lines' = d.lines
                        /\ UNCHANGED <<trace, result, deskew_angle, fs>>
                   ELSE /\ Attempt(ops, blob_number, outs, "rotate_mask")
                        /\ detected_lines' = detected
                        /\ lines' = d.lines
                        /\ deskew_angle' = d.angle
    /\ UNCHANGED <<loopIdleVars, setupVars, openedVars, image_rgba,
                   image_mask, blobs, index, blob, blob_rgba, bounding_box,
                   center, mask_rotation, rgba_rotation, replacements>>

\* let blob = rotate(&blob, point_to_tuple(center),
\* angle_to_radians(deskew_angle), ..), blurred, saved as
\* "mask-{blob_number}-d-deskewed"
ProcessRotateMask ==
    /\ pc = "rotate_mask"
    /\ mask_rotation' = RotateMask(center, deskew_angle)
    /\ blob' = gaussian_blur_f32(
                   rotate(blob, mask_rotation'.center, mask_rotation'.theta))
    /\ LET ops == <<"rotate mask", "gaussian_blur_f32">>
                      \o Saves("save mask-d-deskewed")
       IN  \E outs \in Outcomes(ops) :
               Attempt(ops, blob_number, outs, "rotate_color")
    /\ UNCHANGED <<idleVars, setupVars, openedVars, image_rgba, image_mask, blobs, index,
                   blob_rgba, bounding_box, center, lines, deskew_angle,
                   rgba_rotation, replacements>>

\* let mut blob_rgba = rotate(&image_rgba, point_to_tuple(center),
\* angle_to_radians(deskew_angle), ..)
ProcessRotateColor ==
    /\ pc = "rotate_color"
    /\ rgba_rotation' = RotateColor(center, deskew_angle)
    /\ blob_rgba' = rotate(image_rgba, rgba_rotation'.center,
                           rgba_rotation'.theta)
    /\ Attempt(<<"rotate color">>, blob_number, [i \in {1} |-> "ok"], "crop")
    /\ UNCHANGED <<idleVars, setupVars, openedVars, image_rgba, image_mask, blobs, index,
                   blob, bounding_box, center, lines, deskew_angle,
                   mask_rotation, replacements>>

\* alpha_channel::replace(&mut blob_rgba, &blob), the bounding box of the
\* rotated and blurred mask, which may have no non-black pixel left, and
\* crop_imm(&blob_rgba, ..).to_image()
ProcessCrop ==
    /\ pc = "crop"
    /\ replacements' = Append(replacements,
                              [image |-> blob_rgba, gray |-> blob])
    /\ IF replace_panics(blob_rgba, blob)
       THEN /\ pc' = "panic"
            /\ UNCHANGED <<trace, result, bounding_box, blob_rgba,
                           fs>>
       ELSE \E s \in Extents(width, height) \cup {unset_box(width, height)} :
                LET bb == bounding_box_of_size(s, overflow_checks)
                IN  /\ bounding_box' = bb
                    /\ IF bb.status = "panic"
                       THEN /\ pc' = "panic"
                            /\ UNCHANGED <<trace, result, blob_rgba, fs>>
                       ELSE /\ blob_rgba' =
                                   replaced_and_cropped(
                                       blob_rgba, blob,
                                       crop_imm(width, height, bb.rect.left,
                                                bb.rect.top, bb.rect.width,
                                                bb.rect.height))
                            /\ Attempt(<<"replace", "compute_bounding_box",
                                         "crop_imm">>,
                                       blob_number,
                                       [i \in {1, 2, 3} |-> "ok"], "save_blob")
    /\ UNCHANGED <<idleVars, setupVars, openedVars, image_rgba, image_mask, blobs, index,
                   blob, center, lines, deskew_angle, mask_rotation,
                   rgba_rotation>>

\* io::save_rgba_image_as(&blob_rgba, &self.base_path, "{blob_number}", dpi)?
ProcessSaveBlob ==
    /\ pc = "save_blob"
    /\ \E outs \in Outcomes(<<"save blob">>) :
           Attempt(<<"save blob">>, blob_number, outs, "ocr")
    /\ UNCHANGED <<idleVars, setupVars, openedVars, image_rgba, image_mask, blobs, index,
                   blob, blob_rgba, bounding_box, center, lines, deskew_angle,
                   mask_rotation, rgba_rotation, replacements>>

\* the OCR of the saved blob and the end of the loop body, where the
\* variables of the body go out of scope
ProcessOcr ==
    /\ pc = "ocr"
    /\ LET ops == <<"LepTess::new", "set_variable TesseditPagesegMode",
                    "set_variable PreserveInterwordSpaces", "set_image",
                    "get_utf8_text", "fs::write">>
       IN  \E outs \in Outcomes(ops) :
               /\ Attempt(ops, blob_number, outs, "next_blob")
               /\ IF FirstErr(ops, outs) # 0
                  THEN UNCHANGED <<index, blob, blob_rgba, bounding_box,
                                   center, detected_lines, lines,
                                   deskew_angle, mask_rotation,
                                   rgba_rotation>>
                  ELSE /\ index' = index + 1
                       /\ blob' = None /\ blob_rgba' = None
                       /\ bounding_box' = None /\ center' = None
                       /\ detected_lines' = None
                       /\ lines' = None /\ deskew_angle' = None
                       /\ mask_rotation' = None /\ rgba_rotation' = None
    /\ UNCHANGED <<loopIdleVars, setupVars, openedVars, image_rgba,
                   image_mask, blobs, replacements>>

----------------------------------------------------------------------------
(* run: BlobExtractor::new and process for each file of the command line,   *)
(* and the names of the files process writes and reads                      *)

\* the paths that may be given, and the size of the image at each
Paths == {[stem |-> "a", ext |-> "png"], [stem |-> "b", ext |-> "png"]}

ImageSize(path) == IF path.stem = "b" THEN <<1, 1>> ELSE <<2, 2>>

\* run goes on with the next file whatever process returned
process_failed_never(r) == FALSE

\* blob_extractor.process()?: an Err of process makes run return it
process_failed(r) == r.kind = "Err"

\* for file in &args.files: Ok(()) after the last file, otherwise
\* BlobExtractor::new for the next one
RunNextFile ==
    /\ pc = "run"
    /\ IF file >= Len(files)
       THEN /\ run_result' = Ok
            /\ pc' = "exit"
            /\ UNCHANGED <<started, dimVars, result, trace, cfg>>
       ELSE /\ started' = Append(started, files[file + 1])
            /\ cfg' = [cfg EXCEPT !.base_path = base_path(files[file + 1])]
            /\ width' = ImageSize(files[file + 1])[1]
            /\ height' = ImageSize(files[file + 1])[2]
            /\ result' = Pending
            /\ trace' = <<>>
            /\ pc' = "open"
            /\ UNCHANGED run_result
    /\ UNCHANGED <<fillVars, maskVars, files, file, log, image_rgba,
                   image_mask, index, blob, blob_rgba, center, lines,
                   deskew_angle, mask_rotation, rgba_rotation, replacements,
                   fs, dpiVars, callVars>>

\* blob_extractor.process()? has returned; blob_extractor is dropped
RunAfterProcess ==
    /\ pc = "returned"
    /\ log' = Append(log, result)
    /\ IF process_failed(result)
       THEN /\ run_result' = result
            /\ pc' = "exit"
            /\ UNCHANGED file
       ELSE /\ file' = file + 1
            /\ pc' = "run"
            /\ UNCHANGED run_result
    /\ image_rgba' = None /\ image_mask' = None /\ blobs' = <<>>
    /\ index' = 0 /\ replacements' = <<>>
    /\ maybe_dpi' = None /\ dpi' = None
    /\ UNCHANGED <<dimVars, fillVars, mask, gray_image, source, source0,
                   components, bounding_box, overflow_checks, files, started,
                   cfg, result, trace, blob, blob_rgba, center, lines,
                   deskew_angle, mask_rotation, rgba_rotation, fs, metadata,
                   readerVars, callVars>>

----------------------------------------------------------------------------
(* Specification: flood_fill called NumCalls times on an arbitrary image *)

FillShapes == {d \in (1 .. MaxFillArea) \X (1 .. MaxFillArea) :
                 d[1] * d[2] <= MaxFillArea}

\* seeds: every pixel, and one coordinate beyond each side
Seeds(w, h) == Coords(w, h) \cup {<<-1, 0>>, <<w, 0>>, <<0, -1>>, <<0, h>>}

InitFill ==
    /\ \E d \in FillShapes : width = d[1] /\ height = d[2]
    /\ image \in [Coords(width, height) -> Palette]
    /\ seed \in Seeds(width, height)
    /\ target_color = Key
    /\ replacement_color \in {Transparent, NearKey}
    /\ fuzz \in FuzzValues
    /\ stack = <<>>
    /\ visited = {}
    /\ todo = NumCalls
    /\ original = image
    /\ written = [c \in Coords(width, height) |-> 0]
    /\ tally = no_tally(width, height)
    /\ results = <<image>>
    /\ MaskUnused
    /\ ProcUnused
    /\ RunUnused
    /\ DpiUnused
    /\ CallsUnused
    /\ pc = "call"

NextFill == FloodFillEnter \/ FloodFillStep \/ FloodFillReturn

SpecFill == InitFill /\ [][NextFill]_vars

----------------------------------------------------------------------------
(* Specification: one flood_fill that is never held up *)

\* pixels of the image
MaxLoopArea == 4

InitLoop ==
    /\ \E d \in (1 .. MaxLoopArea) \X (1 .. MaxLoopArea) :
           d[1] * d[2] <= MaxLoopArea /\ width = d[1] /\ height = d[2]
    /\ image \in [Coords(width, height) -> Palette]
    /\ seed \in Seeds(width, height)
    /\ target_color = Key
    /\ replacement_color \in {Transparent, NearKey}
    /\ fuzz \in FuzzValues
    /\ stack = <<>>
    /\ visited = {}
    /\ todo = 1
    /\ original = image
    /\ written = [c \in Coords(width, height) |-> 0]
    /\ tally = no_tally(width, height)
    /\ results = <<image>>
    /\ MaskUnused
    /\ ProcUnused
    /\ RunUnused
    /\ DpiUnused
    /\ CallsUnused
    /\ pc = "call"

\* the thread that runs flood_fill takes its next step
SpecLoop == InitLoop /\ [][NextFill]_vars /\ WF_vars(NextFill)

----------------------------------------------------------------------------
(* Specification: the chroma-key removal of process() on an arbitrary sheet *)

SheetShapes == {d \in (1 .. MaxSheetArea) \X (1 .. MaxSheetArea) :
                  d[1] * d[2] <= MaxSheetArea}

\* sheet pixels: background that matches only with fuzz, and content
SheetPalette == {NearKey, White}

InitChroma ==
    /\ \E d \in SheetShapes : width = d[1] /\ height = d[2]
    /\ image \in [Coords(width, height) -> SheetPalette]
    /\ seed = <<0, 0>>
    /\ target_color = Key
    /\ replacement_color = Transparent
    /\ fuzz \in FuzzValues
    /\ stack = <<>>
    /\ visited = {}
    /\ todo = 1
    /\ original = image
    /\ written = [c \in Coords(width, height) |-> 0]
    /\ tally = no_tally(width, height)
    /\ results = <<image>>
    /\ MaskUnused
    /\ ProcUnused
    /\ RunUnused
    /\ DpiUnused
    /\ CallsUnused
    /\ pc = "border"

NextChroma == DrawBorder \/ FloodFillEnter \/ FloodFillStep \/ FloodFillReturn

SpecChroma == InitChroma /\ [][NextChroma]_vars

----------------------------------------------------------------------------
(* Specification: the alpha plane of one buffer put into another *)

AlphaShapes == {d \in (1 .. MaxAlphaArea) \X (1 .. MaxAlphaArea) :
                  d[1] * d[2] <= MaxAlphaArea}

\* a pixel that is neither opaque nor transparent
HalfWhite == <<255, 255, 255, 128>>

AlphaPalette == {Key, Transparent, HalfWhite}

InitAlpha ==
    /\ \E d \in AlphaShapes : width = d[1] /\ height = d[2]
    /\ source \in [Coords(width, height) -> AlphaPalette]
    /\ image \in [Coords(width, height) -> AlphaPalette]
    /\ source0 = source
    /\ original = image
    /\ gray_image = None
    /\ mask = None /\ components = None /\ blobs = None /\ bounding_box = None
    /\ overflow_checks = TRUE
    /\ seed = None /\ target_color = None /\ replacement_color = None
    /\ fuzz = None /\ stack = <<>> /\ visited = {} /\ todo = 0
    /\ written = None /\ tally = None /\ results = <<>>
    /\ ProcUnused
    /\ RunUnused
    /\ DpiUnused
    /\ CallsUnused
    /\ pc = "extract"

NextAlpha == AlphaExtract \/ AlphaReplace

SpecAlpha == InitAlpha /\ [][NextAlpha]_vars

----------------------------------------------------------------------------
(* Specification: compute_bounding_box on an arbitrary mask *)

MaskShapes == {d \in (1 .. MaxMaskArea) \X (1 .. MaxMaskArea) :
                 d[1] * d[2] <= MaxMaskArea}

\* Luma values: background, a blurred edge, foreground
GrayLevels == {0, 128, 255}

InitBBox ==
    /\ \E d \in MaskShapes : width = d[1] /\ height = d[2]
    /\ mask \in [Coords(width, height) -> GrayLevels]
    /\ overflow_checks \in BOOLEAN
    /\ bounding_box = None
    /\ gray_image = None /\ source = None /\ source0 = None
    /\ components = None /\ blobs = None
    /\ FillUnused
    /\ ProcUnused
    /\ RunUnused
    /\ DpiUnused
    /\ CallsUnused
    /\ pc = "bbox"

NextBBox == ComputeBoundingBox

SpecBBox == InitBBox /\ [][NextBBox]_vars

----------------------------------------------------------------------------
(* Specification: extract_blobs on an arbitrary cleaned mask *)

\* the mask left by dilate_mut is binary
BinaryLevels == {0, 255}

InitBlobs ==
    /\ \E d \in MaskShapes : width = d[1] /\ height = d[2]
    /\ mask \in [Coords(width, height) -> BinaryLevels]
    /\ components = None /\ blobs = None
    /\ bounding_box = None /\ overflow_checks = TRUE
    /\ gray_image = None /\ source = None /\ source0 = None
    /\ FillUnused
    /\ ProcUnused
    /\ RunUnused
    /\ DpiUnused
    /\ CallsUnused
    /\ pc = "label"

NextBlobs == LabelComponents \/ ExtractBlobs

SpecBlobs == InitBlobs /\ [][NextBlobs]_vars

----------------------------------------------------------------------------
(* Specification: the readers of pixel density on arbitrary metadata *)

\* segments read from a JPEG file before the input ends
MaxSegments == 2

\* --dpi, default_value_t
default_dpi == 150

\* a field that is not there
Absent == [kind |-> "absent", vals |-> <<>>]

\* XResolution and YResolution: absent, of another type, an empty
\* Rational, or a Rational <<num, denom>>
Rationals == {<<10, 1>>, <<145, 2>>}

ResolutionFields ==
    {Absent, [kind |-> "ascii", vals |-> <<>>],
     [kind |-> "rational", vals |-> <<>>]}
        \cup {[kind |-> "rational", vals |-> <<r>>] : r \in Rationals}

\* bytes read_raw fails on
Unreadable == [readable |-> FALSE, unit |-> <<>>, x |-> Absent, y |-> Absent]

\* what read_raw makes of EXIF data: ResolutionUnit as get_uint(0) gives it
ExifViews ==
    {Unreadable}
        \cup [readable : {TRUE},
              unit : {<<>>, <<1>>, <<2>>, <<3>>, <<4>>},
              x : ResolutionFields,
              y : {Absent} \cup {[kind |-> "rational", vals |-> <<r>>] :
                                    r \in Rationals}]

\* the EXIF data exif_metadata() returns
ExifBlobs == [tiff : ExifViews, jpeg : {FALSE}, segments : {<<>>}]

\* the segments next_segment yields: APP0 with a density and its unit, the
\* end of the image, any other segment, or a failure to read one
JfifDensities == {<<10, 10>>, <<72, 96>>}

Segments ==
    {[kind |-> k, unit |-> 0, x_density |-> 0, y_density |-> 0] :
        k \in {"other", "eoi", "error"}}
        \cup {[kind |-> "app0", unit |-> u, x_density |-> d[1],
               y_density |-> d[2]] : u \in 0 .. 3, d \in JfifDensities}

SegmentLists ==
    UNION {[1 .. n -> Segments] : n \in 0 .. MaxSegments}

\* the bytes of a file: a JPEG, which read_raw cannot read, or another
\* file, which may be a TIFF that read_raw reads as it reads EXIF data
FileContents ==
    [tiff : {Unreadable}, jpeg : {TRUE}, segments : SegmentLists]
        \cup [tiff : {v \in ExifViews :
                         (v.readable => v.x = v.y /\ v.x.vals # <<>>)},
              jpeg : {FALSE}, segments : {<<>>}]

Metadata ==
    [file_contents : FileContents,
     exif : {<<>>} \cup {<<e>> : e \in ExifBlobs}]

\* a file without EXIF data and without a JFIF header
NoMetadata ==
    [file_contents |->
         [tiff |-> Unreadable, jpeg |-> FALSE, segments |-> <<>>],
     exif |-> <<>>]

\* the EXIF data, or the whole file where there is none, as read_from_bytes
\* hands it to read_dpi_from_exif
exif_or_file(m) == IF m.exif = <<>> THEN m.file_contents ELSE m.exif[1]

ReadDpiFromExif ==
    /\ pc = "read_exif"
    /\ from_exif' = read_dpi_from_exif(exif_or_file(metadata))
    /\ pc' = "read_jfif"
    /\ UNCHANGED <<dimVars, fillVars, maskVars, procVars, runVars, callVars,
                   metadata,
                   openedVars, from_jfif, decoded>>

ReadDpiFromJfif ==
    /\ pc = "read_jfif"
    /\ from_jfif' = read_dpi_from_jfif(metadata.file_contents)
    /\ pc' = "read_from_bytes"
    /\ UNCHANGED <<dimVars, fillVars, maskVars, procVars, runVars, callVars,
                   metadata,
                   openedVars, from_exif, decoded>>

ReadFromBytes ==
    /\ pc = "read_from_bytes"
    /\ decoded' = read_from_bytes(metadata.file_contents, metadata.exif)
    /\ pc' = "read_metadata"
    /\ UNCHANGED <<dimVars, fillVars, maskVars, procVars, runVars, callVars,
                   metadata,
                   openedVars, from_exif, from_jfif>>

ReadDpiFromMetadata ==
    /\ pc = "read_metadata"
    /\ maybe_dpi' =
           read_dpi_from_metadata(metadata.file_contents, metadata.exif)
    /\ pc' = "read_done"
    /\ UNCHANGED <<dimVars, fillVars, maskVars, procVars, runVars, callVars,
                   metadata,
                   dpi, readerVars>>

InitDpi ==
    /\ width = None /\ height = None
    /\ FillUnused
    /\ MaskUnused
    /\ ProcUnused
    /\ RunUnused
    /\ metadata \in Metadata
    /\ maybe_dpi = None /\ dpi = None
    /\ from_exif = None /\ from_jfif = None /\ decoded = None
    /\ CallsUnused
    /\ pc = "read_exif"

NextDpi ==
    ReadDpiFromExif \/ ReadDpiFromJfif \/ ReadFromBytes \/ ReadDpiFromMetadata

SpecDpi == InitDpi /\ [][NextDpi]_vars

----------------------------------------------------------------------------
(* Specification: color_similarity called on two arbitrary colours *)

\* the colours flood_fill hands over, and neighbours of them one step of an
\* 8-bit channel away
SrgbSamples ==
    {image_rgba_to_palette_srgb(c) : c \in Palette \cup {Transparent}}
        \cup {<<0, 0, 1>>, <<254, 255, 255>>, <<113, 170, 94>>,
              <<128, 128, 128>>, <<255, 0, 0>>}

\* one call of color_similarity with a and b in either place
ColorSimilarity ==
    /\ pc = "similarity"
    /\ \E a \in {similarity.a, similarity.b} :
       \E b \in {similarity.a, similarity.b} :
           /\ \A c \in similarity.calls : c.a # a \/ c.b # b
           /\ similarity' =
                  [similarity EXCEPT
                      !.calls = @ \cup {[a |-> a, b |-> b,
                                         diff |-> color_similarity(a, b)]}]
    /\ UNCHANGED <<dimVars, fillVars, maskVars, procVars, runVars, dpiVars,
                   border, angleVars, pc>>

InitSimilarity ==
    /\ width = None /\ height = None
    /\ FillUnused
    /\ MaskUnused
    /\ ProcUnused
    /\ RunUnused
    /\ DpiUnused
    /\ similarity \in [a : SrgbSamples, b : SrgbSamples, calls : {{}}]
    /\ border = None
    /\ AnglesUnused
    /\ pc = "similarity"

NextSimilarity == ColorSimilarity

SpecSimilarity == InitSimilarity /\ [][NextSimilarity]_vars

----------------------------------------------------------------------------
(* Specification: draw_border called with an arbitrary rectangle and       *)
(* thickness on a blank canvas                                             *)

\* sides of the canvas and of the rectangle
MaxBorderSide == 3

MaxThickness == 2

\* one call of draw_border; a panic leaves in the buffer what was drawn
DrawBorderCall ==
    /\ pc = "border_call"
    /\ LET run == draw_border_run(image, border.color, border.x, border.y,
                                  border.width, border.height,
                                  border.thickness, 0, overflow_checks)
       IN  /\ image' = run.image
           /\ pc' = IF run.status = "panic" THEN "panic" ELSE "border_done"
    /\ UNCHANGED <<dimVars, seed, target_color, replacement_color, fuzz,
                   stack, visited, todo, original, written, tally, results,
                   maskVars, procVars, runVars, dpiVars, callVars>>

InitBorder ==
    /\ width \in 1 .. MaxBorderSide
    /\ height \in 1 .. MaxBorderSide
    /\ image = [c \in Coords(width, height) |-> White]
    /\ original = image
    /\ seed = None /\ target_color = None /\ replacement_color = None
    /\ fuzz = None /\ stack = <<>> /\ visited = {} /\ todo = 0
    /\ written = None /\ tally = None /\ results = <<>>
    /\ mask = None /\ gray_image = None /\ source = None /\ source0 = None
    /\ components = None /\ blobs = None /\ bounding_box = None
    /\ overflow_checks \in BOOLEAN
    /\ ProcUnused
    /\ RunUnused
    /\ DpiUnused
    /\ similarity = None
    /\ AnglesUnused
    /\ border \in [color : {Key}, x : {0, 1}, y : {0},
                   width : 0 .. MaxBorderSide, height : 0 .. MaxBorderSide,
                   thickness : 0 .. MaxThickness]
    /\ pc = "border_call"

NextBorder == DrawBorderCall

SpecBorder == InitBorder /\ [][NextBorder]_vars

----------------------------------------------------------------------------
(* The skew angle from the convex hull: compute_skew_angle_and_rotation_center *)

\* imageproc::point::Point::new(x, y)
Point(x, y) == [x |-> x, y |-> y]

\* the later points are ignored
scan_first_only(e, p) == e

\* the leftmost point taken as the one of largest x
scan_point_widest(e, p) ==
    [e EXCEPT !.leftmost = IF p.x > e.leftmost.x THEN p ELSE e.leftmost]

\* one pass of the loop body over the point p
scan_point(e, p) ==
    LET l1 == IF p.x < e.leftmost.x THEN p ELSE e.leftmost
        l2 == IF p.x = l1.x /\ p.y < l1.y THEN p ELSE l1
        r1 == IF p.x > e.rightmost.x THEN p ELSE e.rightmost
        t1 == IF p.y < e.topmost.y THEN p ELSE e.topmost
        t2 == IF p.y = t1.y /\ p.x < t1.x THEN p ELSE t1
        b1 == IF p.y > e.bottommost.y THEN p ELSE e.bottommost
        b2 == IF p.y = b1.y /\ p.x < b1.x THEN p ELSE b1
    IN  [leftmost |-> l2, rightmost |-> r1, topmost |-> t2,
         bottommost |-> b2]

RECURSIVE scan_from(_, _, _)
\* for i in 1..points.len(): the points from the 1-based place i on
scan_from(points, i, e) ==
    IF i > Len(points) THEN e
    ELSE scan_from(points, i + 1, scan_point(e, points[i]))

\* the four extremal points, all started at points[0]
extremal_points(points) ==
    scan_from(points, 2,
              [leftmost |-> points[1], rightmost |-> points[1],
               topmost |-> points[1], bottommost |-> points[1]])

\* the u32 subtractions of the function: minuend and subtrahend
subtractions(e) ==
    <<<<e.topmost.x, e.leftmost.x>>, <<e.leftmost.y, e.topmost.y>>,
      <<e.bottommost.x, e.leftmost.x>>, <<e.bottommost.y, e.leftmost.y>>,
      <<e.rightmost.x, e.leftmost.x>>, <<e.bottommost.y, e.topmost.y>>>>

\* one of them is below zero
underflows(e) ==
    \E i \in DOMAIN subtractions(e) :
        subtractions(e)[i][1] < subtractions(e)[i][2]

\* (p / (p^2 + q^2).sqrt()).asin() * 180 / PI in hundredths of a degree,
\* for legs p and q that are not both 0
asin_degrees(p, q) ==
    <<<<0, 0, 0, 0, 0, 0, 0, 0>>,
      <<9000, 4500, 2657, 1843, 1404, 1131, 946, 813>>,
      <<9000, 6343, 4500, 3369, 2657, 2180, 1843, 1595>>,
      <<9000, 7157, 5631, 4500, 3687, 3096, 2657, 2320>>,
      <<9000, 7596, 6343, 5313, 4500, 3866, 3369, 2974>>,
      <<9000, 7869, 6820, 5904, 5134, 4500, 3981, 3554>>,
      <<9000, 8054, 7157, 6343, 5631, 5019, 4500, 4060>>,
      <<9000, 8187, 7405, 6680, 6026, 5446, 4940, 4500>>>>[p + 1][q + 1]

\* the top triangle taken when its vertical leg is the shorter one
top_triangle_if_shorter(top_vertical, bottom_vertical) ==
    top_vertical < bottom_vertical

\* if top_vertical_line_length > bottom_vertical_line_length
top_triangle(top_vertical, bottom_vertical) ==
    top_vertical > bottom_vertical

\* if angle > 10.0 || angle < -10.0 { angle = 0.0; }
clamped(angle) == IF angle > 1000 \/ angle < -1000 THEN 0 ELSE angle

\* Rect::at(x, y).of_size(width, height), which asserts that both sizes
\* are positive, and the point in its middle
center_of(x, y, w, h) ==
    IF w = 0 \/ h = 0 THEN [status |-> "panic", center |-> Point(0, 0)]
    ELSE [status |-> "ok", center |-> Point(x + w \div 2, y + h \div 2)]

\* the extremal points before the scan
unscanned ==
    [leftmost |-> Point(0, 0), rightmost |-> Point(0, 0),
     topmost |-> Point(0, 0), bottommost |-> Point(0, 0)]

\* what the function holds when it does not reach the triangles
no_triangle ==
    [triangle |-> "none", top_vertical |-> 0, bottom_vertical |-> 0,
     a |-> 0, b |-> 0, direction_factor |-> 0]

\* compute_skew_angle_and_rotation_center for the hull points of an image of
\* w x h pixels; nan tells that the angle is not a number
compute_skew_angle_and_rotation_center(points, w, h) ==
    IF Len(points) < 2
    THEN LET c == center_of(0, 0, w, h)
         IN  [status |-> c.status, scanned |-> FALSE, extremal |-> unscanned,
              underflow |-> FALSE, chosen |-> no_triangle,
              nan |-> FALSE, angle |-> 0, center |-> c.center]
    ELSE LET e == extremal_points(points)
             top_vertical == e.leftmost.y - e.topmost.y
             bottom_vertical == e.bottommost.y - e.leftmost.y
             top == top_triangle(top_vertical, bottom_vertical)
             a == IF top THEN e.topmost.x - e.leftmost.x
                  ELSE e.bottommost.x - e.leftmost.x
             b == IF top THEN e.leftmost.y - e.topmost.y
                  ELSE e.bottommost.y - e.leftmost.y
             direction_factor == IF top THEN -1 ELSE 1
             nan == a = 0 /\ b = 0
             angle1 == asin_degrees(a, b)
             angle2 == asin_degrees(b, a)
             smallest_angle == IF angle1 < angle2 THEN angle1 ELSE angle2
             c == center_of(e.leftmost.x, e.topmost.y,
                            e.rightmost.x - e.leftmost.x,
                            e.bottommost.y - e.topmost.y)
         IN  IF underflows(e)
             THEN [status |-> "underflow", scanned |-> TRUE, extremal |-> e,
                   underflow |-> TRUE, chosen |-> no_triangle,
                   nan |-> FALSE, angle |-> 0, center |-> Point(0, 0)]
             ELSE [status |-> c.status, scanned |-> TRUE, extremal |-> e,
                   underflow |-> FALSE,
                   chosen |-> [triangle |-> IF top THEN "top" ELSE "bottom",
                               top_vertical |-> top_vertical,
                               bottom_vertical |-> bottom_vertical,
                               a |-> a, b |-> b,
                               direction_factor |-> direction_factor],
                   nan |-> nan,
                   angle |-> IF nan THEN 0
                             ELSE clamped(smallest_angle * direction_factor),
                   center |-> c.center]

----------------------------------------------------------------------------
(* Specification: compute_skew_angle_and_rotation_center on arbitrary points *)

\* points convex_hull returns
MaxHullPoints == 3

\* the contour points of a mask of 7 by 3 pixels: a leg of 1 against a leg
\* of 6 is an angle below 10 degrees
HullPoints == {Point(x, y) : x \in 0 .. 6, y \in 0 .. 2}

ComputeSkewAngle ==
    /\ pc = "skew_call"
    /\ skew' = compute_skew_angle_and_rotation_center(hull, width, height)
    /\ pc' = IF skew'.status = "ok" THEN "skew_done" ELSE "panic"
    /\ UNCHANGED <<dimVars, fillVars, maskVars, procVars, runVars, dpiVars,
                   similarity, border, detected_lines, deskew, hull>>

InitSkew ==
    /\ width = 7 /\ height = 3
    /\ FillUnused
    /\ MaskUnused
    /\ ProcUnused
    /\ RunUnused
    /\ DpiUnused
    /\ similarity = None /\ border = None
    /\ detected_lines = None /\ deskew = None
    /\ hull \in {points \in UNION {[1 .. n -> HullPoints] :
                                        n \in 0 .. MaxHullPoints} :
                    \A i, j \in DOMAIN points :
                        points[i] = points[j] => i = j}
    /\ skew = None
    /\ pc = "skew_call"

NextSkew == ComputeSkewAngle

SpecSkew == InitSkew /\ [][NextSkew]_vars

----------------------------------------------------------------------------
(* Specification: compute_deskew_angle_for_rectangle on arbitrary lines *)

\* lines detect_lines returns
MaxDeskewLines == 4

\* angle_in_degrees of a PolarLine, in [0, 180)
DeskewAngles == {2, 4, 6, 8, 100, 179}

\* values of --max-lines and --max-blob-rotation (hundredths of a degree)
DeskewMaxLines == {0, 1, 2, 4}

DeskewRotations == {0, 1000, 1050}

ComputeDeskewAngle ==
    /\ pc = "deskew_call"
    /\ deskew' = compute_deskew_angle_for_rectangle(
                     detected_lines, cfg.max_lines, cfg.max_blob_rotation)
    /\ pc' = IF deskew'.status = "panic" THEN "panic" ELSE "deskew_done"
    /\ UNCHANGED <<dimVars, fillVars, maskVars, procVars, runVars, dpiVars,
                   similarity, border, detected_lines, hull, skew>>

InitDeskew ==
    /\ width = None /\ height = None
    /\ FillUnused
    /\ MaskUnused
    /\ cfg \in [max_lines : DeskewMaxLines,
                max_blob_rotation : DeskewRotations]
    /\ result = None /\ trace = <<>> /\ image_rgba = None
    /\ image_mask = None /\ index = 0 /\ blob = None /\ blob_rgba = None
    /\ center = None /\ lines = None /\ deskew_angle = None
    /\ mask_rotation = None /\ rgba_rotation = None /\ replacements = <<>>
    /\ fs = {}
    /\ RunUnused
    /\ DpiUnused
    /\ similarity = None /\ border = None
    /\ detected_lines \in
           UNION {[1 .. n -> DeskewAngles] : n \in 0 .. MaxDeskewLines}
    /\ deskew = None /\ hull = None /\ skew = None
    /\ pc = "deskew_call"

NextDeskew == ComputeDeskewAngle

SpecDeskew == InitDeskew /\ [][NextDeskew]_vars

----------------------------------------------------------------------------
(* Specification: BlobExtractor::process on one file *)

PipeShapes ==
    {s \in (1 .. MaxPipeArea) \X (1 .. MaxPipeArea) : s[1] * s[2] <= MaxPipeArea}

\* --max-lines and --max-blob-rotation (hundredths of a degree) as given on
\* the command line; 4 and 10.0 are the defaults
MaxLinesValues == {0, 1, 4}

MaxBlobRotations == {1000, 2550}

InitProcess ==
    /\ \E s \in PipeShapes : width = s[1] /\ height = s[2]
    /\ FillUnused
    /\ mask = None /\ gray_image = None /\ source = None /\ source0 = None
    /\ components = None
    /\ blobs = <<>>
    /\ bounding_box = None
    /\ overflow_checks \in BOOLEAN
    /\ cfg \in [base_path : {"a"},
                save_intermediary_images : BOOLEAN,
                max_lines : MaxLinesValues,
                max_blob_rotation : MaxBlobRotations,
                dpi : {default_dpi},
                ignore_detected_dpi : {FALSE}]
    /\ result = Pending
    /\ trace = <<>>
    /\ image_rgba = None /\ image_mask = None
    /\ index = 0
    /\ blob = None /\ blob_rgba = None /\ center = None /\ lines = None
    /\ deskew_angle = None /\ mask_rotation = None /\ rgba_rotation = None
    /\ replacements = <<>>
    /\ fs = {}
    /\ RunUnused
    /\ metadata = NoMetadata
    /\ maybe_dpi = None /\ dpi = None
    /\ from_exif = None /\ from_jfif = None /\ decoded = None
    /\ CallsUnused
    /\ pc = "open"

NextProcess ==
    \/ ProcessOpen
    \/ ProcessBorder
    \/ ProcessFloodFill
    \/ ProcessExtractAlpha
    \/ ProcessCleanMask
    \/ ProcessReplaceAlpha
    \/ ProcessExtractBlobs
    \/ ProcessNextBlob
    \/ ProcessBoundingBox
    \/ ProcessDeskew
    \/ ProcessRotateMask
    \/ ProcessRotateColor
    \/ ProcessCrop
    \/ ProcessSaveBlob
    \/ ProcessOcr

SpecProcess == InitProcess /\ [][NextProcess]_vars

----------------------------------------------------------------------------
(* Specification: BlobExtractor::process on files of several densities *)

\* a JPEG file of these segments, without EXIF data of its own
Jpeg(segments) ==
    [tiff |-> Unreadable, jpeg |-> TRUE, segments |-> segments]

App0(unit, d) ==
    [kind |-> "app0", unit |-> unit, x_density |-> d[1], y_density |-> d[2]]

Eoi == [kind |-> "eoi", unit |-> 0, x_density |-> 0, y_density |-> 0]

\* EXIF data with this unit and this resolution on both axes
ExifBlob(unit, r) ==
    [tiff |-> [readable |-> TRUE, unit |-> unit,
               x |-> [kind |-> "rational", vals |-> <<r>>],
               y |-> [kind |-> "rational", vals |-> <<r>>]],
     jpeg |-> FALSE, segments |-> <<>>]

\* no metadata; a JFIF density per inch; one per centimetre; EXIF data per
\* inch; EXIF data without a unit in a file with a JFIF density
DensityFiles ==
    {NoMetadata,
     [file_contents |-> Jpeg(<<App0(1, <<72, 96>>), Eoi>>), exif |-> <<>>],
     [file_contents |-> Jpeg(<<App0(2, <<10, 10>>), Eoi>>), exif |-> <<>>],
     [file_contents |-> Jpeg(<<App0(0, <<10, 10>>), Eoi>>),
      exif |-> <<ExifBlob(<<2>>, <<145, 2>>)>>],
     [file_contents |-> Jpeg(<<App0(1, <<72, 96>>), Eoi>>),
      exif |-> <<ExifBlob(<<1>>, <<10, 1>>)>>]}

\* values of --dpi
DpiValues == {default_dpi, 72}

InitDensity ==
    /\ width = 2 /\ height = 2
    /\ FillUnused
    /\ mask = None /\ gray_image = None /\ source = None /\ source0 = None
    /\ components = None
    /\ blobs = <<>>
    /\ bounding_box = None
    /\ overflow_checks \in BOOLEAN
    /\ cfg \in [base_path : {"a"},
                save_intermediary_images : BOOLEAN,
                max_lines : {4},
                max_blob_rotation : {1000},
                dpi : DpiValues,
                ignore_detected_dpi : BOOLEAN]
    /\ result = Pending
    /\ trace = <<>>
    /\ image_rgba = None /\ image_mask = None
    /\ index = 0
    /\ blob = None /\ blob_rgba = None /\ center = None /\ lines = None
    /\ deskew_angle = None /\ mask_rotation = None /\ rgba_rotation = None
    /\ replacements = <<>>
    /\ fs = {}
    /\ RunUnused
    /\ metadata \in DensityFiles
    /\ maybe_dpi = None /\ dpi = None
    /\ from_exif = None /\ from_jfif = None /\ decoded = None
    /\ CallsUnused
    /\ pc = "open"

SpecDensity == InitDensity /\ [][NextProcess]_vars

----------------------------------------------------------------------------
(* Specification: run over the files of the command line *)

FileLists == UNION {[1 .. n -> Paths] : n \in 0 .. MaxFiles}

InitRun ==
    /\ files \in FileLists
    /\ file = 0 /\ started = <<>> /\ log = <<>>
    /\ run_result = Pending
    /\ width = None /\ height = None
    /\ FillUnused
    /\ mask = None /\ gray_image = None /\ source = None /\ source0 = None
    /\ components = None
    /\ blobs = <<>>
    /\ bounding_box = None
    /\ overflow_checks \in BOOLEAN
    /\ cfg \in [base_path : {None},
                save_intermediary_images : BOOLEAN,
                max_lines : {4},
                max_blob_rotation : {1000},
                dpi : {default_dpi},
                ignore_detected_dpi : {FALSE}]
    /\ result = Pending
    /\ trace = <<>>
    /\ image_rgba = None /\ image_mask = None
    /\ index = 0
    /\ blob = None /\ blob_rgba = None /\ center = None /\ lines = None
    /\ deskew_angle = None /\ mask_rotation = None /\ rgba_rotation = None
    /\ replacements = <<>>
    /\ fs = {}
    /\ metadata = NoMetadata
    /\ maybe_dpi = None /\ dpi = None
    /\ from_exif = None /\ from_jfif = None /\ decoded = None
    /\ CallsUnused
    /\ pc = "run"

NextRun ==
    \/ RunNextFile
    \/ RunAfterProcess
    \/ NextProcess

SpecRun == InitRun /\ [][NextRun]_vars

----------------------------------------------------------------------------
(* Claims about flood_fill and draw_border *)

\* a pixel whose colour is within fuzz of the target colour
Matching(img, c, tgt, fz) ==
    color_similarity(image_rgba_to_palette_srgb(img[c]),
                     image_rgba_to_palette_srgb(tgt)) <= fz

RECURSIVE Closure(_, _, _, _)
Closure(img, tgt, fz, S) ==
    LET T == S \cup {c \in DOMAIN img :
                       /\ Matching(img, c, tgt, fz)
                       /\ \E d \in S : Adjacent(c, d)}
    IN  IF T = S THEN S ELSE Closure(img, tgt, fz, T)

\* the pixels joined to the seed by a 4-connected path of matching pixels
Region(img, s, tgt, fz) ==
    IF s \in DOMAIN img /\ Matching(img, s, tgt, fz)
    THEN Closure(img, tgt, fz, {s})
    ELSE {}

\* a call of flood_fill has returned and the next has not begun
Returned == pc \in {"call", "done"} /\ Len(results) >= 2

\* C1: when flood_fill returns, the pixels it overwrote are exactly the
\* pixels joined to the seed by a 4-connected path of pixels whose original
\* colour is within fuzz of the target; each was written once and now holds
\* the replacement colour; every other pixel keeps its original value (so an
\* out-of-bounds or non-matching seed changes nothing).  No pixel is ever
\* written twice within a call.
C1_FloodFillRegion ==
    /\ \A c \in Coords(width, height) : written[c] <= 1
    /\ Returned =>
         LET R == Region(original, seed, target_color, fuzz)
         IN  \A c \in Coords(width, height) :
               IF c \in R
               THEN image[c] = replacement_color /\ written[c] = 1
               ELSE image[c] = original[c] /\ written[c] = 0

\* a call that filled some pixels, left a non-matching pixel alone and left
\* alone a matching pixel that is cut off from the seed
C1_Witness ==
    /\ Returned
    /\ LET R == Region(original, seed, target_color, fuzz)
       IN  /\ Cardinality(R) >= 2
           /\ \E c \in Coords(width, height) :
                c \notin R /\ Matching(original, c, target_color, fuzz)
           /\ \E c \in Coords(width, height) :
                ~Matching(original, c, target_color, fuzz)

\* C2: flood_fill is idempotent: a further call with the same parameters on
\* the result of the first call changes no pixel.
C2_FloodFillIdempotent ==
    \A i \in 3 .. Len(results) : results[i] = results[2]

\* the second call returned after the first had changed the image, with a
\* replacement colour that is itself within fuzz of the target, so that the
\* second call wrote pixels again
C2_Witness ==
    /\ Len(results) >= 3
    /\ results[2] # results[1]
    /\ color_similarity(image_rgba_to_palette_srgb(replacement_color),
                        image_rgba_to_palette_srgb(target_color)) <= fuzz
    /\ \E c \in Coords(width, height) : written[c] = 1

\* the first and last row and column
Perimeter(w, h) ==
    {c \in Coords(w, h) : c[1] = 0 \/ c[1] = w - 1 \/ c[2] = 0 \/ c[2] = h - 1}

\* C3: after draw_border with the key colour and thickness 1 followed by
\* flood_fill from (0, 0) with fuzz >= 0, every pixel of the image perimeter
\* holds the transparent replacement colour.
C3_PerimeterTransparent ==
    (pc = "done" /\ fuzz >= 0) =>
        \A c \in Perimeter(width, height) : image[c] = replacement_color

\* a sheet with an interior, whose edge held content next to the seed corner
\* and whose interior content survives the fill
C3_Witness ==
    /\ pc = "done" /\ fuzz >= 0
    /\ width >= 3 /\ height >= 3
    /\ results[1][<<0, 0>>] = White
    /\ \E c \in Coords(width, height) : image[c] = White
    /\ \A c \in Perimeter(width, height) : image[c] = Transparent

----------------------------------------------------------------------------
(* Claims about masks: bounding box, blob separation, alpha planes *)

\* the pixels of non-zero intensity
Foreground(img) == {c \in DOMAIN img : img[c] # 0}

SetMax(S) == CHOOSE m \in S : \A n \in S : m >= n

\* C5: for a mask with at least one non-zero pixel, compute_bounding_box
\* returns the smallest axis-aligned rectangle covering all non-zero pixels:
\* left and top are the least x and y of the foreground, and every foreground
\* pixel, those of the greatest x and y included, lies inside the rectangle.
C5_SmallestCoveringBox ==
    (pc = "done" /\ Foreground(mask) # {}) =>
        /\ bounding_box.status = "ok"
        /\ bounding_box.rect.left = SetMin({c[1] : c \in Foreground(mask)})
        /\ bounding_box.rect.top = SetMin({c[2] : c \in Foreground(mask)})
        /\ \A c \in Foreground(mask) : RectContains(bounding_box.rect, c)
        /\ RectRight(bounding_box.rect) = SetMax({c[1] : c \in Foreground(mask)})
        /\ RectBottom(bounding_box.rect) = SetMax({c[2] : c \in Foreground(mask)})

\* the non-zero labels of the component map
Labels == {components[c] : c \in DOMAIN components} \ {0}

\* C6: extract_blobs returns as many blobs as the label map has distinct
\* non-zero labels, and the foregrounds of any two blobs are disjoint.
C6_BlobCountAndDisjoint ==
    pc = "done" =>
        /\ Len(blobs) = Cardinality(Labels)
        /\ \A i, j \in 1 .. Len(blobs) :
             i # j => Foreground(blobs[i]) \cap Foreground(blobs[j]) = {}

\* three or more components were separated, one of them of several pixels
C6_Witness ==
    /\ pc = "done"
    /\ Cardinality(Labels) >= 3
    /\ \E k \in Labels : Cardinality({c \in DOMAIN components : components[c] = k}) >= 2
    /\ Len(blobs) >= 3

\* C7: the blobs come in ascending label order: for every label k the blob
\* at position k (k-1 counting from zero) has the size of the mask, is 255 at
\* exactly the pixels labelled k and 0 elsewhere; so the blobs' foregrounds
\* together are the non-background pixels of the mask.
C7_BlobsInLabelOrder ==
    pc = "done" =>
        /\ \A k \in Labels :
             /\ k <= Len(blobs)
             /\ DOMAIN blobs[k] = Coords(width, height)
             /\ \A c \in Coords(width, height) :
                  blobs[k][c] = IF components[c] = k THEN 255 ELSE 0
        /\ UNION {Foreground(blobs[k]) : k \in 1 .. Len(blobs)} = Foreground(mask)

\* a mask of two components where the second label appears in the scan
\* before the last pixel of the first
C7_Witness ==
    /\ pc = "done"
    /\ Len(blobs) = 2
    /\ \E c, d \in Coords(width, height) :
         /\ components[c] = 2 /\ components[d] = 1
         /\ RasterIndex(c, width) < RasterIndex(d, width)

\* C8: replace(T, extract(S)) leaves T with the alpha of S at every pixel and
\* with its own R, G and B; extract does not modify S.
C8_AlphaRoundTrip ==
    pc = "done" =>
        /\ \A c \in Coords(width, height) :
             /\ image[c][4] = source0[c][4]
             /\ image[c][1] = original[c][1]
             /\ image[c][2] = original[c][2]
             /\ image[c][3] = original[c][3]
        /\ source = source0

\* a target whose alpha changed at some pixel, taken from a source whose
\* alpha differs from its red channel
C8_Witness ==
    /\ pc = "done"
    /\ \E c \in Coords(width, height) : image[c] # original[c]
    /\ \E c \in Coords(width, height) : source[c][4] # source[c][1]

----------------------------------------------------------------------------
(* Claims about the pipeline: deskew angle, alignment, errors *)

\* the mask, the colour image of the current blob has been rotated
MaskRotated ==
    \E i \in DOMAIN trace :
        trace[i].op = "rotate mask" /\ trace[i].blob = blob_number

ColourRotated ==
    \E i \in DOMAIN trace :
        trace[i].op = "rotate color" /\ trace[i].blob = blob_number

\* C4: the deskew angle with which a blob is rotated lies in [-10, 10]
\* degrees, here with the maximum blob rotation left at its default of 10
C4_RotationWithinTenDegrees ==
    (MaskRotated /\ cfg.max_blob_rotation = 1000) =>
        /\ deskew_angle >= -1000
        /\ deskew_angle <= 1000
        /\ mask_rotation.theta = angle_to_radians(deskew_angle)

\* C9: at every alpha replacement the mask has the width and height of the
\* colour buffer, and the colour image of a blob is rotated about the centre
\* and by the angle its mask was rotated with
C9_MaskAndColourAligned ==
    /\ \A i \in DOMAIN replacements :
           DOMAIN replacements[i].gray = DOMAIN replacements[i].image
    /\ ColourRotated =>
           /\ rgba_rotation.center = mask_rotation.center
           /\ rgba_rotation.theta = mask_rotation.theta

\* the first blob went through both replacements and a rotation that moves
\* pixels: a centre off the origin and an angle other than 0
C9_Witness ==
    /\ Len(replacements) = 2
    /\ ColourRotated
    /\ rgba_rotation.theta # 0
    /\ rgba_rotation.center # <<0, 0>>

\* C10: a call of process that gives an error is the last call process makes,
\* process has then returned, and what it returned is that error; process
\* returns an error only when its last call gave one
C10_FirstErrorReturned ==
    /\ \A i \in DOMAIN trace :
           ~trace[i].ok =>
               /\ i = Len(trace)
               /\ pc = "returned"
               /\ result = Err(trace[i].op, trace[i].blob)
    /\ result.kind = "Err" => (trace # <<>> /\ ~trace[Len(trace)].ok)
    /\ result.kind = "Ok" => pc = "returned"

\* the OCR of the first of two blobs failed and process returned that error
\* with the second blob untouched
C10_Witness ==
    /\ pc = "returned"
    /\ result = Err("get_utf8_text", 1)
    /\ Len(blobs) = 2
    /\ \A i \in DOMAIN trace : trace[i].blob < 2

----------------------------------------------------------------------------
(* Claims about run: errors and order across files *)

\* no step removes a file
FilesRemain == \A e \in fs : \E d \in fs' : d.name = e.name

\* C11: when process fails for a file, that call is the last one run makes,
\* run has returned its error, and the files given to BlobExtractor::new are
\* the files up to that one, in argument order; run returns an error only
\* then; and no step removes a file that has been written
C11_ErrorEndsBatch ==
    /\ [](/\ \A i \in DOMAIN log :
                log[i].kind = "Err" =>
                    /\ i = Len(log)
                    /\ pc = "exit"
                    /\ run_result = log[i]
                    /\ started = SubSeq(files, 1, i)
          /\ run_result.kind = "Err" =>
                (log # <<>> /\ log[Len(log)] = run_result)
          /\ (pc = "returned" /\ trace # <<>> /\ ~trace[Len(trace)].ok) =>
                result = Err(trace[Len(trace)].op, trace[Len(trace)].blob)
          /\ Len(started) <= Len(files)
          /\ started = SubSeq(files, 1, Len(started)))
    /\ [][FilesRemain]_vars

\* the second of three files failed after the first had written a blob: run
\* has returned, the third file was not started, the blob is still there
C11_Witness ==
    /\ pc = "exit"
    /\ Len(files) = 3
    /\ Len(log) = 2
    /\ log[2].kind = "Err"
    /\ run_result = log[2]
    /\ \E e \in fs : e.by = 1 /\ e.name.ext = "png" /\ e.whole

\* the names '<base>-n.png' and '<base>-n.txt'
BlobPng(base, n) ==
    [base |-> base, suffix |-> [fmt |-> "{}", arg |-> n], ext |-> "png"]

BlobTxt(base, n) ==
    [base |-> base, suffix |-> [fmt |-> "{}", arg |-> n], ext |-> "txt"]

\* the entries of the trace that take a blob from the list
Taken == SelectSeq(trace, LAMBDA e : e.op = "next")

\* how often the call op was made for blob n
Times(op, n) ==
    Cardinality({i \in DOMAIN trace : trace[i].op = op /\ trace[i].blob = n})

\* the calls of the cycle of one blob
CycleOps ==
    {"next", "compute_center_from_rectangle", "canny", "rotate mask",
     "rotate color", "crop_imm", "save blob", "set_image", "get_utf8_text",
     "fs::write"}

\* C12: files are started in argument order; within a file the k-th blob
\* taken from the list is numbered k and the calls are in blob order; blob
\* n is saved as '<base>-n.png' and its text as '<base>-n.txt', names that
\* differ between blobs; OCR reads the PNG of blob n after it was saved;
\* nothing is done for blob n + 1 before the text of blob n is written; and
\* each call of the cycle is made at most once per blob, once for a blob
\* whose text is written
C12_SequentialAndNumbered ==
    /\ Len(started) <= Len(files)
    /\ started = SubSeq(files, 1, Len(started))
    /\ Len(log) \in {Len(started) - 1, Len(started)}
    /\ \A k \in DOMAIN Taken : Taken[k].blob = k
    /\ pc \in {"bounding_box", "deskew", "rotate_mask", "rotate_color",
                "crop", "save_blob", "ocr"} =>
           (Len(Taken) = index + 1 /\ index < Len(blobs))
    /\ \A i \in DOMAIN trace :
           /\ i > 1 => trace[i - 1].blob <= trace[i].blob
           /\ (i > 1 /\ trace[i - 1].blob < trace[i].blob) =>
                  /\ trace[i].blob = trace[i - 1].blob + 1
                  /\ trace[i].op = "next"
                  /\ trace[i - 1].blob > 0 =>
                         (trace[i - 1].op = "fs::write" /\ trace[i - 1].ok)
           /\ (trace[i].op = "save blob" /\ trace[i].ok) =>
                  /\ Target(trace[i], cfg.base_path)
                         = {BlobPng(cfg.base_path, trace[i].blob)}
                  /\ \E e \in fs :
                         e.name = BlobPng(cfg.base_path, trace[i].blob)
           /\ (trace[i].op = "fs::write" /\ trace[i].ok) =>
                  /\ Target(trace[i], cfg.base_path)
                         = {BlobTxt(cfg.base_path, trace[i].blob)}
                  /\ \E e \in fs :
                         e.name = BlobTxt(cfg.base_path, trace[i].blob)
           /\ trace[i].op = "set_image" =>
                  \E j \in 1 .. i - 1 :
                      /\ trace[j].op = "save blob" /\ trace[j].ok
                      /\ Target(trace[j], cfg.base_path)
                             = Reads(trace[i], cfg.base_path)
                      /\ \E e \in fs :
                             e.name \in Reads(trace[i], cfg.base_path)
    /\ \A n \in 1 .. Len(Taken) : \A op \in CycleOps :
           /\ Times(op, n) <= 1
           /\ (\E e \in fs : e.name = BlobTxt(cfg.base_path, n)
                                /\ e.by = file + 1 /\ e.whole)
                  => Times(op, n) = 1
    /\ \A n \in 1 .. MaxBlobs : \A m \in 1 .. MaxBlobs :
           n # m =>
               /\ save_filename("a", suffix_of("save blob", n))
                      # save_filename("a", suffix_of("save blob", m))
               /\ text_filename("a", n) # text_filename("a", m)

\* two files were processed in order and the first gave two blobs, each
\* with its PNG and its text
C12_Witness ==
    /\ pc = "exit"
    /\ run_result = Ok
    /\ Len(log) = 2
    /\ \A n \in {1, 2} :
           /\ \E e \in fs : e.name = BlobPng("a", n) /\ e.by = 1 /\ e.whole
           /\ \E e \in fs : e.name = BlobTxt("a", n) /\ e.by = 1 /\ e.whole


----------------------------------------------------------------------------
(* Claims about pixel density *)

\* the colour images among the files process has written
RgbaFiles ==
    {e \in fs : e.name.ext = "png"
                  /\ e.name.suffix.fmt
                         \in {"a-border", "b-floodfilled", "e-with-mask", "{}"}}

\* C13: once the file is open, every colour image written for it carries the
\* same density: the detected one if and only if the metadata gave one and
\* ignore_detected_dpi is off, and otherwise the configured one on both axes
C13_DetectedUnlessIgnored ==
    dpi # None =>
        LET detected == maybe_dpi # <<>> /\ ~cfg.ignore_detected_dpi
            expected == IF detected THEN maybe_dpi[1]
                        ELSE <<cfg.dpi, cfg.dpi>>
        IN  /\ dpi = expected
            /\ \A e \in RgbaFiles : e.dpi = expected

\* process has returned Ok having written several colour images with a
\* detected density that differs from the configured one
C13_Witness ==
    /\ pc = "returned" /\ result = Ok
    /\ Cardinality(RgbaFiles) >= 3
    /\ maybe_dpi # <<>> /\ ~cfg.ignore_detected_dpi
    /\ \A e \in RgbaFiles : e.dpi = maybe_dpi[1] /\ e.dpi[1] # cfg.dpi

\* what the decoded EXIF data of the file give, None where there are none
ExifYield ==
    IF metadata.exif = <<>> THEN <<>>
    ELSE read_dpi_from_exif(metadata.exif[1])

\* C14: the density open_image resolves is the one of the EXIF data where
\* they give one, and otherwise the one of the JFIF header, which is read
\* whenever the EXIF data are absent, unreadable or without a usable value;
\* it is None only when neither gives one
C14_ExifThenJfif ==
    pc = "read_done" =>
        maybe_dpi = (IF ExifYield # <<>> THEN ExifYield ELSE from_jfif)

\* the same of dpi::decoder::read_from_bytes
ReadFromBytesExifThenJfif ==
    pc \in {"read_metadata", "read_done"} =>
        decoded = (IF from_exif # <<>> THEN from_exif ELSE from_jfif)

\* 39.37 times n, rounded to the nearest integer
RoundedPerMetre(n) == (n * 3937 + 50) \div 100

\* C15: the pixels per metre in every colour image written are the density
\* it was given times 39.37, rounded to the nearest integer (5906 for 150)
C15_PixelsPerMetreRounded ==
    \A e \in RgbaFiles :
        e.ppu = <<RoundedPerMetre(e.dpi[1]), RoundedPerMetre(e.dpi[2])>>

\* d is 2.54 times v as an integer: less than one away from the product
TimesCmPerInch(v, d) ==
    /\ 254 * v - 100 < 100 * d
    /\ 100 * d < 254 * v + 100

\* the first segment of the file that is not skipped, if there is one
Decisive(file_contents) ==
    LET S == {i \in DOMAIN file_contents.segments :
                 file_contents.segments[i].kind # "other"}
    IN  IF file_contents.jpeg /\ S # {}
        THEN <<file_contents.segments[SetMin(S)]>>
        ELSE <<>>

----------------------------------------------------------------------------
(* Claims about degenerate masks and borders *)

\* C18: on a mask without a non-zero pixel compute_bounding_box returns a
\* rectangle, of a size that is neither underflowed nor wrapped, and does
\* not fail
C18_EmptyMaskDegenerate ==
    (pc = "done" /\ Foreground(mask) = {}) =>
        /\ bounding_box.status = "ok"
        /\ bounding_box.rect.width >= 0
        /\ bounding_box.rect.height >= 0

\* C19: on a mask whose only non-zero pixel is at (x, y)
\* compute_bounding_box returns, without failing, a rectangle with left = x
\* and top = y whose width and height are both 1 or both 0
C19_SinglePixelBox ==
    (pc = "done" /\ Cardinality(Foreground(mask)) = 1) =>
        LET c == CHOOSE c \in Foreground(mask) : TRUE
        IN  /\ bounding_box.status = "ok"
            /\ bounding_box.rect.left = c[1]
            /\ bounding_box.rect.top = c[2]
            /\ bounding_box.rect.width = bounding_box.rect.height
            /\ bounding_box.rect.width \in {0, 1}

\* the pixels of the hollow rectangle at (left, top) of this size
OnRectangle(c, left, top, w, h) ==
    /\ left <= c[1] /\ c[1] <= left + w - 1
    /\ top <= c[2] /\ c[2] <= top + h - 1
    /\ (c[1] = left \/ c[1] = left + w - 1 \/ c[2] = top
        \/ c[2] = top + h - 1)

\* an inset rectangle that has a pixel to draw
Drawable(offset) ==
    border.width - 2 * offset > 0 /\ border.height - 2 * offset > 0

\* C20: draw_border returns, having given its colour to the pixels of the
\* hollow rectangles at (x + offset, y + offset) of size (width - 2 * offset,
\* height - 2 * offset) for offset below thickness, and to no other pixel; a
\* rectangle of zero or negative size draws nothing and is no failure
C20_ConcentricOrNoOp ==
    pc \in {"border_done", "panic"} =>
        /\ pc = "border_done"
        /\ image =
               [c \in DOMAIN original |->
                   IF \E offset \in 0 .. border.thickness - 1 :
                          /\ Drawable(offset)
                          /\ OnRectangle(c, border.x + offset,
                                         border.y + offset,
                                         border.width - 2 * offset,
                                         border.height - 2 * offset)
                   THEN border.color ELSE original[c]]

\* the same where every inset rectangle has a pixel to draw
ConcentricWhenDrawable ==
    (/\ pc \in {"border_done", "panic"}
     /\ \A offset \in 0 .. border.thickness - 1 : Drawable(offset))
        => C20_ConcentricOrNoOp

----------------------------------------------------------------------------
(* Claims about the colour distance *)

----------------------------------------------------------------------------
(* Claims about the deskew angle from detected lines *)

\* the first min(n, max_lines) detected lines
FirstLines ==
    SubSeq(detected_lines, 1, IF Len(detected_lines) < cfg.max_lines
                              THEN Len(detected_lines) ELSE cfg.max_lines)

\* the ceiling: max_blob_rotation without its fraction
Ceiling == cfg.max_blob_rotation \div 100

\* an angle folded by 90 degrees at most twice
Normalized(a) ==
    IF a <= Ceiling THEN a
    ELSE IF a - 90 <= Ceiling THEN a - 90
    ELSE a - 180

\* the k-th smallest of the normalized angles of the first lines
Smallest(k) ==
    CHOOSE v \in {Normalized(FirstLines[i]) : i \in DOMAIN FirstLines} :
        /\ Cardinality({i \in DOMAIN FirstLines :
                            Normalized(FirstLines[i]) < v}) < k
        /\ Cardinality({i \in DOMAIN FirstLines :
                            Normalized(FirstLines[i]) <= v}) >= k

\* their median, in hundredths
MedianOfFirstLines ==
    LET n == Len(FirstLines)
    IN  IF n % 2 = 1 THEN 100 * Smallest((n + 1) \div 2)
        ELSE 50 * (Smallest(n \div 2) + Smallest(n \div 2 + 1))

\* C21: with at least one line detected, the angle returned is the negated
\* median of the normalized angles of the first min(n, max_lines) lines: the
\* middle one of an odd count, the mean of the two middle ones of an even
\* count
C21_NegatedMedian ==
    (pc \in {"deskew_done", "panic"} /\ detected_lines # <<>>) =>
        /\ deskew.status = "ok"
        /\ deskew.angle = -MedianOfFirstLines

\* the same of the calls that keep at least one line
NegatedMedianOfKept ==
    (pc \in {"deskew_done", "panic"} /\ FirstLines # <<>>) =>
        /\ deskew.status = "ok"
        /\ deskew.angle = -MedianOfFirstLines

\* C22: each angle is kept if it is at most the ceiling, else lowered by 90
\* if that is at most the ceiling, else lowered by 180; the angles the
\* median is taken of are these, and none of them is above the ceiling
C22_FoldedTwice ==
    pc = "deskew_done" =>
        /\ Len(deskew.angles) = Len(FirstLines)
        /\ \A v \in -180 .. 179 :
               Cardinality({i \in DOMAIN deskew.angles : deskew.angles[i] = v})
                   = Cardinality({i \in DOMAIN FirstLines :
                                     Normalized(FirstLines[i]) = v})
        /\ \A i \in DOMAIN deskew.angles : deskew.angles[i] <= Ceiling

\* a line kept as it is, one lowered by 90 and one lowered by 180
C22_Witness ==
    /\ pc = "deskew_done"
    /\ cfg.max_blob_rotation = 1050
    /\ \E i \in DOMAIN deskew.angles : deskew.angles[i] = 8
    /\ \E i \in DOMAIN deskew.angles : deskew.angles[i] = 10
    /\ \E i \in DOMAIN deskew.angles : deskew.angles[i] = -1

\* C29: whatever max_lines is, 0 included, with at least one line detected
\* the median reads no element outside the list of angles, and
\* compute_deskew_angle_for_rectangle returns an angle
C29_MedianInBounds ==
    (pc \in {"deskew_done", "panic"} /\ detected_lines # <<>>) =>
        deskew.status = "ok"

----------------------------------------------------------------------------
(* Claims about a blob without detected lines *)

\* the call op has been made for the current blob
Called(op) ==
    \E i \in DOMAIN trace : trace[i].op = op /\ trace[i].blob = blob_number

\* the steps of the loop body after the deskew angle is known
AfterDeskew == {"rotate_mask", "rotate_color", "crop", "save_blob", "ocr"}

\* the call of compute_deskew_angle_for_rectangle for the current blob has
\* panicked
DeskewPanicked ==
    /\ pc = "panic"
    /\ Called("compute_center_from_rectangle")
    /\ ~MaskRotated

\* process returned an error of the OCR of the current blob
OcrFailed ==
    /\ pc = "returned"
    /\ Called("save blob")
    /\ trace[Len(trace)].op # "save blob"

\* C23: when detect_lines finds no line for a blob the call returns the
\* angle 0, the mask and the colour image of the blob are rotated by 0, and
\* the blob is cropped, saved and given to the OCR like any other
C23_NoLinesIdentity ==
    /\ DeskewPanicked => detected_lines # <<>>
    /\ (pc \in AfterDeskew /\ detected_lines = <<>>) =>
           /\ deskew_angle = 0
           /\ pc # "rotate_mask" => (MaskRotated /\ mask_rotation.theta = 0)
           /\ pc \in {"crop", "save_blob", "ocr"} =>
                  (ColourRotated /\ rgba_rotation.theta = 0)
           /\ pc \in {"save_blob", "ocr"} => Called("crop_imm")
           /\ pc = "ocr" => Called("save blob")
    /\ (OcrFailed /\ detected_lines = <<>>) =>
           (Called("LepTess::new") /\ rgba_rotation.theta = 0)

\* a blob without lines has been rotated, cropped and saved, and its text
\* could not be written
C23_Witness ==
    /\ OcrFailed
    /\ detected_lines = <<>>
    /\ MaskRotated /\ ColourRotated
    /\ Called("crop_imm") /\ Called("fs::write")

----------------------------------------------------------------------------
(* Claims about the skew angle from the convex hull *)

\* the points of the hull
Hull == {hull[i] : i \in DOMAIN hull}

\* the call has been made
SkewCalled == pc \in {"skew_done", "panic"}

\* the triangles have been reached
Triangles == SkewCalled /\ skew.chosen.triangle # "none"

\* C24: of the (topmost, leftmost) and the (bottommost, leftmost) triangle
\* the one with the shorter vertical leg is chosen, the direction factor is
\* -1 for the top and +1 for the bottom triangle, and the legs are those of
\* the chosen triangle
C24_ShorterVerticalLeg ==
    Triangles =>
        LET c == skew.chosen
            e == skew.extremal
        IN  /\ c.triangle = "top" => c.top_vertical <= c.bottom_vertical
            /\ c.triangle = "bottom" => c.bottom_vertical <= c.top_vertical
            /\ c.direction_factor = IF c.triangle = "top" THEN -1 ELSE 1
            /\ c.triangle = "top" =>
                   /\ c.a = e.topmost.x - e.leftmost.x
                   /\ c.b = e.leftmost.y - e.topmost.y
            /\ c.triangle = "bottom" =>
                   /\ c.a = e.bottommost.x - e.leftmost.x
                   /\ c.b = e.bottommost.y - e.leftmost.y

\* C24, amended: the triangle with the longer vertical leg is chosen, the
\* bottom one when the two legs are equal; the direction factor is -1 for
\* the top and +1 for the bottom triangle, and the legs are those of the
\* chosen triangle
C24_LongerVerticalLeg ==
    Triangles =>
        LET c == skew.chosen
            e == skew.extremal
            top_vertical == e.leftmost.y - e.topmost.y
            bottom_vertical == e.bottommost.y - e.leftmost.y
        IN  /\ c.triangle = "top" <=> top_vertical > bottom_vertical
            /\ c.triangle = "bottom" <=> top_vertical <= bottom_vertical
            /\ c.direction_factor = IF c.triangle = "top" THEN -1 ELSE 1
            /\ c.triangle = "top" =>
                   /\ c.a = e.topmost.x - e.leftmost.x
                   /\ c.b = e.leftmost.y - e.topmost.y
            /\ c.triangle = "bottom" =>
                   /\ c.a = e.bottommost.x - e.leftmost.x
                   /\ c.b = e.bottommost.y - e.leftmost.y

\* a top triangle six wide and one high has given -9.46 degrees
C24_Witness ==
    /\ pc = "skew_done"
    /\ skew.chosen.triangle = "top"
    /\ skew.chosen.a = 6 /\ skew.chosen.b = 1
    /\ skew.angle = -946

\* C25: for every hull of at least 2 points, those on one row or one column
\* included, the call returns an angle that is a number between -10 and 10
\* degrees
C25_AngleWithinTen ==
    (SkewCalled /\ Len(hull) >= 2) =>
        /\ skew.status = "ok"
        /\ ~skew.nan
        /\ skew.angle >= -1000 /\ skew.angle <= 1000

\* the same of the calls that return
WithinTenWhenReturned ==
    pc = "skew_done" =>
        (~skew.nan /\ skew.angle >= -1000 /\ skew.angle <= 1000)

\* C26: the scan leaves the leftmost point at the smallest x and, of the
\* points there, the smallest y; the topmost at the smallest y and there
\* the smallest x; the bottommost at the largest y and there the smallest
\* x; the rightmost at a point of the largest x
C26_ExtremalPoints ==
    (SkewCalled /\ skew.scanned) =>
        LET e == skew.extremal
        IN  /\ {e.leftmost, e.topmost, e.bottommost, e.rightmost} \subseteq Hull
            /\ \A p \in Hull :
                   /\ e.leftmost.x <= p.x
                   /\ p.x = e.leftmost.x => e.leftmost.y <= p.y
                   /\ e.topmost.y <= p.y
                   /\ p.y = e.topmost.y => e.topmost.x <= p.x
                   /\ e.bottommost.y >= p.y
                   /\ p.y = e.bottommost.y => e.bottommost.x <= p.x
                   /\ e.rightmost.x >= p.x

\* three points in an order that makes every test of the scan succeed once
C26_Witness ==
    /\ SkewCalled
    /\ hull = <<Point(3, 1), Point(0, 2), Point(0, 0)>>
    /\ skew.extremal.leftmost = Point(0, 0)
    /\ skew.extremal.bottommost = Point(0, 2)

\* C30: none of the six unsigned subtractions of the extremal points goes
\* below zero
C30_NoUnderflow ==
    (SkewCalled /\ Len(hull) >= 2) =>
        /\ ~skew.underflow
        /\ \A i \in DOMAIN subtractions(skew.extremal) :
               subtractions(skew.extremal)[i][1]
                   >= subtractions(skew.extremal)[i][2]

\* the first point is neither the leftmost nor the topmost one, and every
\* difference but one is above zero
C30_Witness ==
    /\ pc = "skew_done"
    /\ hull = <<Point(4, 2), Point(1, 1), Point(2, 0)>>
    /\ skew.extremal.leftmost = Point(1, 1)
    /\ skew.extremal.topmost = Point(2, 0)

----------------------------------------------------------------------------
(* Claims about the end of flood_fill *)

\* no coordinate got past the visited check twice, and the pushes are at
\* most the seed and four for every pixel
PushesBounded ==
    /\ \A c \in Coords(width, height) : tally.admitted[c] <= 1
    /\ tally.pushed <= 4 * width * height + 1
    /\ Len(stack) <= tally.pushed

\* C27: flood_fill ends for every image, seed and fuzz: a coordinate of the
\* image gets past the visited check at most once, at most 4 * W * H + 1
\* coordinates are pushed, and the stack becomes empty
C27_FloodFillEnds ==
    /\ []PushesBounded
    /\ <>(pc = "done" /\ stack = <<>>)

\* a fill of four pixels that pushed as often as it can: the seed and four
\* times four neighbours
C27_Witness ==
    /\ pc = "done"
    /\ width * height = MaxLoopArea
    /\ tally.pushed = 4 * MaxLoopArea + 1
    /\ \A c \in Coords(width, height) : tally.admitted[c] = 1

----------------------------------------------------------------------------
(* Claims about what a blob leaves behind *)

\* the steps of the loop over the blobs
InLoop ==
    pc \in {"next_blob", "bounding_box", "deskew"} \cup AfterDeskew

\* C28: while the blobs are worked on, the colour image and the cleaned
\* mask hold nothing computed from a blob and every blob of the list holds
\* its own pixels only; the mask, the colour image and the cropped image of
\* the current blob are computed from that blob alone
C28_BlobsIndependent ==
    InLoop =>
        /\ origins(image_rgba) = {}
        /\ origins(image_mask) = {}
        /\ \A i \in DOMAIN blobs : origins(blobs[i]) = {i}
        /\ pc \in {"bounding_box", "deskew"} \cup AfterDeskew =>
               origins(blob) = {blob_number}
        /\ pc \in {"crop", "save_blob", "ocr"} =>
               origins(blob_rgba) \subseteq {blob_number}
        /\ pc \in {"save_blob", "ocr"} /\ DOMAIN blob_rgba # {} =>
               origins(blob_rgba) = {blob_number}

\* the second of two blobs is about to be saved, the first one having been
\* rotated, cropped, saved and read
C28_Witness ==
    /\ pc = "save_blob"
    /\ index = 1
    /\ Len(blobs) = 2
    /\ origins(blob_rgba) = {2}
    /\ \E i \in DOMAIN trace : trace[i].op = "fs::write" /\ trace[i].blob = 1

====
